---- MODULE Spec2Model ----
(***************************************************************************)
(* Model of the YouTube transcript server: URL resolver, retry-fetch       *)
(* protocol (lib/youtube.ts getTranscript), KV-backed transcript cache     *)
(* (utils/cache.ts) and the transcript resolution strategy                 *)
(* (tools/transcript.ts).  Strings are TLA+ strings, so message            *)
(* construction, includes(), startsWith() and cache keys are computed on   *)
(* the actual characters.                                                  *)
(***************************************************************************)
EXTENDS Integers, Sequences, FiniteSets, TLC

(***************************************************************************)
(* JavaScript string primitives used by the source.                        *)
(***************************************************************************)
includes(s, f) ==
  \E i \in 1..(Len(s) - Len(f) + 1) : SubSeq(s, i, i + Len(f) - 1) = f

startsWith(s, f) ==
  Len(s) >= Len(f) /\ SubSeq(s, 1, Len(f)) = f

UpperChars == "ABCDEFGHIJKLMNOPQRSTUVWXYZ"
LowerChars == "abcdefghijklmnopqrstuvwxyz"

LowerOf ==
  [c \in {SubSeq(UpperChars, i, i) : i \in 1..26} |->
     LET i == CHOOSE j \in 1..26 : SubSeq(UpperChars, j, j) = c
     IN  SubSeq(LowerChars, i, i)]

lowerChar(c) == IF c \in DOMAIN LowerOf THEN LowerOf[c] ELSE c

RECURSIVE toLowerCase(_)
toLowerCase(s) ==
  IF s = "" THEN ""
  ELSE lowerChar(SubSeq(s, 1, 1)) \o toLowerCase(SubSeq(s, 2, Len(s)))

isWhitespace(c) == c \in {" ", "\n", "\t", "\r"}

RECURSIVE trimStart(_)
trimStart(s) ==
  IF s # "" /\ isWhitespace(SubSeq(s, 1, 1))
  THEN trimStart(SubSeq(s, 2, Len(s)))
  ELSE s

RECURSIVE trimEnd(_)
trimEnd(s) ==
  IF s # "" /\ isWhitespace(SubSeq(s, Len(s), Len(s)))
  THEN trimEnd(SubSeq(s, 1, Len(s) - 1))
  ELSE s

trim(s) == trimEnd(trimStart(s))

\* transcript.replace(/\n+/g, '\n')
RECURSIVE collapseNewlines(_)
collapseNewlines(s) ==
  IF Len(s) < 2 THEN s
  ELSE IF SubSeq(s, 1, 1) = "\n" /\ SubSeq(s, 2, 2) = "\n"
       THEN collapseNewlines(SubSeq(s, 2, Len(s)))
       ELSE SubSeq(s, 1, 1) \o collapseNewlines(SubSeq(s, 2, Len(s)))

\* Array.prototype.join
RECURSIVE join(_, _)
join(parts, sep) ==
  IF Len(parts) = 0 THEN ""
  ELSE IF Len(parts) = 1 THEN parts[1]
  ELSE parts[1] \o sep \o join(Tail(parts), sep)

(***************************************************************************)
(* lib/youtube.ts                                                          *)
(***************************************************************************)
MAX_RETRIES_Four == 3 + 1

MAX_RETRIES == 3
INITIAL_BACKOFF_MS == 1000

\* A plausible slip: the runs of newlines are not collapsed.
sanitizeTranscriptText_NoCollapse(transcript) ==
  IF transcript = "" THEN "" ELSE trim(transcript)

sanitizeTranscriptText(transcript) ==
  IF transcript = "" THEN "" ELSE trim(collapseNewlines(transcript))

\* An Error object: its class name and its message.
MkError(name, message) == [name |-> name, message |-> message]

handleYouTubeErrors(error) ==
  IF error.name = "VideoUnavailableError"
    THEN "No transcript available for this video."
  ELSE IF error.name = "RateLimitError"
    THEN "Service temporarily busy, try again in a few minutes."
  ELSE IF error.name = "NetworkError"
    THEN "Unable to fetch transcript, please try again."
  ELSE IF error.name = "InvalidVideoError"
    THEN "Video not found or private."
  ELSE IF error.message # ""
          /\ (includes(error.message, "not found or private")
              \/ includes(error.message, "Invalid video ID"))
    THEN "Video not found or private."
  ELSE IF error.message # "" /\ includes(error.message, "transcripts disabled")
    THEN "Transcripts are disabled for this video."
  ELSE IF error.message # "" /\ includes(error.message, "No transcript found")
    THEN "No transcript available for this video."
  ELSE "An unexpected error occurred while fetching the transcript."

\* The classification of one failed attempt (the if-chain of the catch block).
isNetworkShaped(m) ==
  m # "" /\ (includes(m, "timed out") \/ includes(m, "network")
             \/ includes(m, "ECONNRESET"))

isRateLimitShaped(m) ==
  m # "" /\ (includes(toLowerCase(m), "too many requests")
             \/ includes(m, "429") \/ includes(m, "403"))

isNoTranscriptShaped(m) ==
  m # "" /\ (includes(m, "No transcript found for this video")
             \/ includes(m, "transcripts are disabled"))

\* A plausible slip: the 'Invalid video ID' fragment is missing.
isInvalidVideoShaped_NoInvalidId(m) ==
  m # "" /\ (includes(m, "This video is unavailable")
             \/ includes(m, "Video not found or private"))

isInvalidVideoShaped(m) ==
  m # "" /\ (includes(m, "This video is unavailable")
             \/ includes(m, "Video not found or private")
             \/ includes(m, "Invalid video ID"))

(***************************************************************************)
(* utils/url-normalize.ts.  parseUrl is the part of url-parse the source   *)
(* relies on: hostname (lower-cased), pathname and the parsed query, in    *)
(* which the first occurrence of a parameter wins.                         *)
(***************************************************************************)
\* String.prototype.indexOf for a one-character needle, 1-based; 0 if absent.
indexOfChar(s, c) ==
  IF \E i \in 1..Len(s) : SubSeq(s, i, i) = c
  THEN CHOOSE i \in 1..Len(s) :
         /\ SubSeq(s, i, i) = c
         /\ \A j \in 1..(i - 1) : SubSeq(s, j, j) # c
  ELSE 0

\* String.prototype.split for a one-character separator.
RECURSIVE split(_, _)
split(s, c) ==
  LET i == indexOfChar(s, c)
  IN  IF i = 0 THEN <<s>>
      ELSE <<SubSeq(s, 1, i - 1)>> \o split(SubSeq(s, i + 1, Len(s)), c)

before(s, c) ==
  LET i == indexOfChar(s, c) IN IF i = 0 THEN s ELSE SubSeq(s, 1, i - 1)

after(s, c) ==
  LET i == indexOfChar(s, c) IN IF i = 0 THEN "" ELSE SubSeq(s, i + 1, Len(s))

NoValue == "<absent>"

\* The printable ASCII characters, from code 32 on (code 96, which a string
\* of this notation cannot hold, is written as a space and never looked up),
\* and the hexadecimal digits.
Ascii ==
  " !\"#$%&'()*+,-./0123456789:;<=>?@ABCDEFGHIJKLMNOPQRSTUVWXYZ[\\]^_ abcdefghijklmnopqrstuvwxyz{|}~"

HexDigits == "0123456789abcdef"

hexValue(c) ==
  IF \E i \in 1..16 : SubSeq(HexDigits, i, i) = lowerChar(c)
  THEN (CHOOSE i \in 1..16 : SubSeq(HexDigits, i, i) = lowerChar(c)) - 1
  ELSE 0 - 1

\* The result of a decoding that throws URIError.
Malformed == "<URIError>"

\* decodeURIComponent, for the escapes of the characters of Ascii; an
\* escape that is cut short or is not hexadecimal throws, and an escape of
\* another code is left as it is written.
RECURSIVE decodeURIComponent(_)
decodeURIComponent(s) ==
  IF s = "" THEN ""
  ELSE IF SubSeq(s, 1, 1) # "%"
  THEN LET rest == decodeURIComponent(SubSeq(s, 2, Len(s)))
       IN  IF rest = Malformed THEN Malformed ELSE SubSeq(s, 1, 1) \o rest
  ELSE IF Len(s) < 3 \/ hexValue(SubSeq(s, 2, 2)) < 0 \/ hexValue(SubSeq(s, 3, 3)) < 0
  THEN Malformed
  ELSE LET code == 16 * hexValue(SubSeq(s, 2, 2)) + hexValue(SubSeq(s, 3, 3))
           rest == decodeURIComponent(SubSeq(s, 4, Len(s)))
       IN  IF rest = Malformed THEN Malformed
           ELSE IF code >= 32 /\ code <= 126 /\ code # 96
           THEN SubSeq(Ascii, code - 31, code - 31) \o rest
           ELSE SubSeq(s, 1, 3) \o rest

\* input.replace(/\+/g, ' ')
RECURSIVE plusToSpace(_)
plusToSpace(s) ==
  IF s = "" THEN ""
  ELSE (IF SubSeq(s, 1, 1) = "+" THEN " " ELSE SubSeq(s, 1, 1))
         \o plusToSpace(SubSeq(s, 2, Len(s)))

\* decode of the query-string parser: Malformed stands for its null
decode(input) == decodeURIComponent(plusToSpace(input))

\* One '&'-separated piece of the query under /([^=?#&]+)=?([^&]*)/: the
\* match starts at the first character that can be part of a key.
RECURSIVE keyStart(_)
keyStart(piece) ==
  IF piece # "" /\ SubSeq(piece, 1, 1) \in {"=", "?", "#"}
  THEN keyStart(SubSeq(piece, 2, Len(piece)))
  ELSE piece

RECURSIVE keyLength(_)
keyLength(piece) ==
  IF piece = "" \/ SubSeq(piece, 1, 1) \in {"=", "?", "#"} THEN 0
  ELSE 1 + keyLength(SubSeq(piece, 2, Len(piece)))

pairKey(piece) ==
  LET m == keyStart(piece) IN SubSeq(m, 1, keyLength(m))

pairValue(piece) ==
  LET m == keyStart(piece)
      rest == SubSeq(m, keyLength(m) + 1, Len(m))
  IN  IF startsWith(rest, "=") THEN SubSeq(rest, 2, Len(rest)) ELSE rest

\* query.v of the parsed query string: the decoded value of the first pair
\* whose decoded key is the key; pairs that do not decode are skipped.
RECURSIVE queryParam(_, _)
queryParam(pairs, key) ==
  IF Len(pairs) = 0 THEN NoValue
  ELSE IF /\ keyStart(pairs[1]) # ""
          /\ decode(pairKey(pairs[1])) = key
          /\ decode(pairValue(pairs[1])) # Malformed
       THEN decode(pairValue(pairs[1]))
       ELSE queryParam(Tail(pairs), key)

parseUrl(url) ==
  LET noHash   == before(url, "#")
      noQuery  == before(noHash, "?")
      query    == after(noHash, "?")
      hasProto == startsWith(noQuery, "https://") \/ startsWith(noQuery, "http://")
      protocol == IF startsWith(noQuery, "https://") THEN "https:"
                  ELSE IF startsWith(noQuery, "http://") THEN "http:" ELSE ""
      rest     == IF hasProto THEN SubSeq(noQuery, Len(protocol) + 3, Len(noQuery))
                  ELSE noQuery
      host     == IF hasProto THEN toLowerCase(before(rest, "/")) ELSE ""
      path     == IF hasProto
                  THEN (IF indexOfChar(rest, "/") = 0 THEN "/"
                        ELSE SubSeq(rest, indexOfChar(rest, "/"), Len(rest)))
                  ELSE rest
  IN  [protocol |-> protocol, hostname |-> host, pathname |-> path,
       v |-> IF query = "" THEN NoValue ELSE queryParam(split(query, "&"), "v")]

\* parts[n] || null for pathname.split('/')
NoId == "<null>"
pathPart(pathname, n) ==
  LET parts == split(pathname, "/")
  IN  IF Len(parts) >= n /\ parts[n] # "" THEN parts[n] ELSE NoId

validHostnames ==
  {"youtube.com", "www.youtube.com", "m.youtube.com", "youtu.be",
   "youtube.co.uk", "youtube.de", "youtube.fr", "youtube.jp", "youtube.ca",
   "youtube.es", "youtube.br", "youtube.com.br", "youtube.co.in",
   "youtube.co.kr"}

\* A plausible slip: the watch rule is tried before the youtu.be rule.
extractVideoIdFromParsedUrl_WatchFirst(parsedUrl) ==
  LET pathname == parsedUrl.pathname
      hasV     == parsedUrl.v # NoValue /\ parsedUrl.v # ""
  IN  IF startsWith(pathname, "/watch") /\ hasV THEN parsedUrl.v
      ELSE IF parsedUrl.hostname = "youtu.be" THEN pathPart(pathname, 2)
      ELSE IF startsWith(pathname, "/live/") THEN pathPart(pathname, 3)
      ELSE IF startsWith(pathname, "/embed/") THEN pathPart(pathname, 3)
      ELSE IF startsWith(pathname, "/shorts/") THEN pathPart(pathname, 3)
      ELSE IF hasV /\ (pathname = "/" \/ pathname = "") THEN parsedUrl.v
      ELSE NoId

\* A plausible slip: the last rule takes the v parameter on any path.
extractVideoIdFromParsedUrl_AnyPath(parsedUrl) ==
  LET pathname == parsedUrl.pathname
      hasV     == parsedUrl.v # NoValue /\ parsedUrl.v # ""
  IN  IF parsedUrl.hostname = "youtu.be" THEN pathPart(pathname, 2)
      ELSE IF startsWith(pathname, "/watch") /\ hasV THEN parsedUrl.v
      ELSE IF startsWith(pathname, "/live/") THEN pathPart(pathname, 3)
      ELSE IF startsWith(pathname, "/embed/") THEN pathPart(pathname, 3)
      ELSE IF startsWith(pathname, "/shorts/") THEN pathPart(pathname, 3)
      ELSE IF hasV THEN parsedUrl.v
      ELSE NoId

extractVideoIdFromParsedUrl(parsedUrl) ==
  LET pathname == parsedUrl.pathname
      hasV     == parsedUrl.v # NoValue /\ parsedUrl.v # ""
  IN  IF parsedUrl.hostname = "youtu.be" THEN pathPart(pathname, 2)
      ELSE IF startsWith(pathname, "/watch") /\ hasV THEN parsedUrl.v
      ELSE IF startsWith(pathname, "/live/") THEN pathPart(pathname, 3)
      ELSE IF startsWith(pathname, "/embed/") THEN pathPart(pathname, 3)
      ELSE IF startsWith(pathname, "/shorts/") THEN pathPart(pathname, 3)
      ELSE IF hasV /\ (pathname = "/" \/ pathname = "") THEN parsedUrl.v
      ELSE NoId

\* A plausible slip: the hostname is not checked against the allow-list.
isValidYouTubeUrl_AnyHost(url) ==
  IF url = "" THEN FALSE
  ELSE extractVideoIdFromParsedUrl(parseUrl(url)) # NoId

isValidYouTubeUrl(url) ==
  IF url = "" THEN FALSE
  ELSE LET parsedUrl == parseUrl(url)
           hostname  == IF startsWith(parsedUrl.hostname, "www.")
                        THEN SubSeq(parsedUrl.hostname, 5, Len(parsedUrl.hostname))
                        ELSE parsedUrl.hostname
       IN  IF hostname \notin validHostnames THEN FALSE
           ELSE extractVideoIdFromParsedUrl(parsedUrl) # NoId

extractVideoId(url) ==
  IF url = "" THEN NoId ELSE extractVideoIdFromParsedUrl(parseUrl(url))

normalizeYouTubeUrl(url) ==
  LET videoId == extractVideoId(url)
  IN  IF videoId # NoId THEN "https://www.youtube.com/watch?v=" \o videoId
      ELSE url

(***************************************************************************)
(* utils/cache.ts: keys and TTL classes                                    *)
(***************************************************************************)
SUCCESSFUL_TRANSCRIPT_TTL_SECONDS == 60 * 60 * 24 * 7
ERROR_RESPONSE_TTL_SECONDS == 60 * 5

getTranscriptCacheKey(videoId, language) ==
  "transcript:" \o videoId \o ":" \o language

(***************************************************************************)
(* lib/youtube.ts getTranscript: one pass through the catch block.         *)
(* attempts is the value after attempts++.  The result says whether the    *)
(* invocation throws (and what) or sleeps (and how long) before retrying.  *)
(***************************************************************************)
Throw(error) == [kind |-> "throw", error |-> error, delay |-> 0]
Sleep(ms)    == [kind |-> "sleep", error |-> MkError("", ""), delay |-> ms]

\* A plausible slip: the no-transcript test is missing from the chain.
errorClass_NoTranscriptRetried(m) ==
  IF isNetworkShaped(m) THEN "network"
  ELSE IF isRateLimitShaped(m) THEN "rateLimit"
  ELSE IF isInvalidVideoShaped(m) THEN "invalidVideo"
  ELSE "other"

\* The branch of the catch block a failure message takes: the tests are made
\* in this order and the first that matches decides.
errorClass(m) ==
  IF isNetworkShaped(m) THEN "network"
  ELSE IF isRateLimitShaped(m) THEN "rateLimit"
  ELSE IF isNoTranscriptShaped(m) THEN "noTranscript"
  ELSE IF isInvalidVideoShaped(m) THEN "invalidVideo"
  ELSE "other"

\* A plausible slip: the last attempt is tested first, so every failure of
\* the last attempt raises the generic error.
catchAttempt_LastAttemptFirst(attempts, backoff, videoId, language, m) ==
  LET class == errorClass(m)
  IN  IF attempts >= MAX_RETRIES THEN
        Throw(MkError("Error",
          "Failed to fetch transcript for " \o videoId \o " after "
            \o ToString(MAX_RETRIES) \o " attempts: " \o m))
      ELSE IF class = "network" THEN Sleep(backoff)
      ELSE IF class = "rateLimit" THEN Sleep(backoff * (attempts + 1))
      ELSE IF class = "noTranscript" THEN
        Throw(MkError("VideoUnavailableError",
          "No transcript found for " \o videoId \o " (lang: " \o language
            \o "). Transcripts may be disabled."))
      ELSE IF class = "invalidVideo" THEN
        Throw(MkError("InvalidVideoError",
          "Video " \o videoId \o " not found or is private."))
      ELSE Sleep(backoff)

catchAttempt(attempts, backoff, videoId, language, m) ==
  LET class == errorClass(m)
  IN  IF class = "network" THEN
        IF attempts >= MAX_RETRIES
        THEN Throw(MkError("NetworkError",
               "Network error after " \o ToString(attempts) \o " attempts: " \o m))
        ELSE Sleep(backoff)
      ELSE IF class = "rateLimit" THEN
        IF attempts >= MAX_RETRIES
        THEN Throw(MkError("RateLimitError",
               "Rate limited after " \o ToString(attempts) \o " attempts: " \o m))
        ELSE Sleep(backoff * (attempts + 1))
      ELSE IF class = "noTranscript" THEN
        Throw(MkError("VideoUnavailableError",
          "No transcript found for " \o videoId \o " (lang: " \o language
            \o "). Transcripts may be disabled."))
      ELSE IF class = "invalidVideo" THEN
        Throw(MkError("InvalidVideoError",
          "Video " \o videoId \o " not found or is private."))
      ELSE IF attempts >= MAX_RETRIES THEN
        Throw(MkError("Error",
          "Failed to fetch transcript for " \o videoId \o " after "
            \o ToString(MAX_RETRIES) \o " attempts: " \o m))
      ELSE Sleep(backoff)

(***************************************************************************)
(* tools/transcript.ts: pure parts                                         *)
(***************************************************************************)
\* A plausible slip: Spanish is tried before English.
languagesToTry_SpanishFirst ==
  <<"es", "en", "fr", "de", "tr", "pt", "ja", "ko", "zh", "it", "ru", "ar">>

languagesToTry ==
  <<"en", "es", "fr", "de", "tr", "pt", "ja", "ko", "zh", "it", "ru", "ar">>

isLanguageRelatedError(error) ==
  IF error.message = "" THEN FALSE
  ELSE LET message == toLowerCase(error.message)
       IN  \/ includes(message, "language")
           \/ includes(message, "subtitle")
           \/ includes(message, "caption")
           \/ includes(message, "transcript")
           \/ includes(message, "not available")
           \/ includes(message, "no transcript found")

Null == "<null>"

\* if (cachedData) ...: null and the empty string are falsy
truthy(cachedData) == cachedData # Null /\ cachedData # ""

\* line 87: cachedData && !cachedData.startsWith('Error:')
\* A plausible slip: any stored value counts as a hit of the auto-detect
\* loop.
autoCacheHit_AnyValue(cachedData) == truthy(cachedData)

autoCacheHit(cachedData) ==
  truthy(cachedData) /\ ~startsWith(cachedData, "Error:")

\* line 89: what the auto-detect loop returns on a cache hit
autoCachedResponse(lang, cachedData) == cachedData

\* line 101
autoFetchedResponse(lang, transcript) ==
  "[Auto-detected language: " \o lang \o "]\n\n" \o transcript

\* A plausible slip: the note about the fallback is left out.
fallbackResponse_NoNote(requestedLanguage, english) == english

\* lines 162 and 173
fallbackResponse(requestedLanguage, english) ==
  "[Requested language '" \o requestedLanguage
    \o "' not available, showing English instead]\n\n" \o english

\* A plausible slip: the failure reason is left out of the list.
triedEntry_NoReason(lang, error) == lang

\* line 112
triedEntry(lang, error) == lang \o ": " \o error.message

\* lines 117-119
autoErrorMessage(availableLanguages, lastError) ==
  IF Len(availableLanguages) > 0
  THEN "No transcript available in any tested language. Tried: "
         \o join(availableLanguages, ", ")
  ELSE handleYouTubeErrors(lastError)

\* line 184
combinedErrorMessage(requestedLanguage, englishError) ==
  "Transcript not available in '" \o requestedLanguage
    \o "' and English fallback failed: " \o handleYouTubeErrors(englishError)

\* lines 181 and 191
cachedErrorValue(error) == "Error: " \o handleYouTubeErrors(error)

(***************************************************************************)
(* Bounds and input sets                                                   *)
(***************************************************************************)
MaxRequests == 2      \* requests handled in one behaviour
MaxTicks == 2         \* clock advances in one behaviour

Procs == {1}

Urls ==
  {"https://youtu.be/abc?si=x",
   "https://www.youtube.com/watch?v=xyz&t=10",
   "https://vimeo.com/watch?v=abc"}

Languages == {"auto", "en", "tr"}

\* The calls getTranscript(url, env, language) a behaviour draws from: every
\* language for the first video, and one call each for a second video and for
\* a URL that is not a YouTube URL.
Requests ==
  {[url |-> "https://youtu.be/abc?si=x", language |-> l] : l \in Languages}
    \cup {[url |-> u, language |-> "en"] : u \in Urls}

\* Seconds by which the clock advances in one step.
TickSeconds == 200

\* Caption segments the caption-fetch capability returns for a language.  A
\* kind "segments:s|t" spells its segments out.
Segments(kind, lang) ==
  IF kind = "plain" THEN <<"[" \o lang \o "]", "hello\n\n\nworld  \n">>
  ELSE IF kind = "errlike" THEN <<"Error:", lang>>
  ELSE IF startsWith(kind, "segments:") THEN split(after(kind, ":"), "|")
  ELSE <<>>

\* Message of the upstream failure for a language without transcript.
NoTranscriptMessage == "No transcript found for this video"

\* Messages of upstream failures.
FaultMessages ==
  {"", "Request timed out", "network failure loading captions",
   "Too Many Requests", "transcripts are disabled",
   "This video is unavailable", "Unexpected token < in JSON",
   "network: No transcript found for this video",
   "Video not found or private", "Invalid video ID",
   "This video is unavailable (HTTP 403)",
   "No transcript found for this video: Video not found or private"}

AllLanguages == {languagesToTry[i] : i \in 1..Len(languagesToTry)} \cup {"tr"}

\* A world: the languages that have a transcript, the text they carry, the
\* languages whose calls always fail (with which message), and failures that
\* hit the first upstream calls whatever their language.
World(avail, kind, broken, glitches) ==
  [avail |-> avail, kind |-> kind, broken |-> broken, glitches |-> glitches]

Outage(m) == [l \in AllLanguages |-> m]
Broken(l, m) == [x \in {l} |-> m]

Worlds ==
  { World({}, "plain", <<>>, <<>>),
    World({"en"}, "plain", <<>>, <<>>),
    World({"es"}, "plain", <<>>, <<>>),
    World({"tr"}, "plain", <<>>, <<>>),
    World({"en", "tr"}, "plain", <<>>, <<>>),
    World({"en"}, "empty", <<>>, <<>>),
    World({"en", "tr"}, "errlike", <<>>, <<>>),
    World({}, "plain", Broken("es", "This video is unavailable"), <<>>),
    World({"en"}, "plain", Broken("tr", "Too Many Requests"), <<>>),
    World({"en"}, "plain", <<>>, <<"Request timed out">>),
    World({"en"}, "plain", <<>>, <<"transcripts are disabled">>),
    World({}, "plain", Outage("This video is unavailable"), <<>>),
    World({}, "plain", Outage("Too Many Requests"), <<>>),
    World({}, "plain", Outage("network failure loading captions"), <<>>),
    World({}, "plain", Outage("Unexpected token < in JSON"), <<>>) }

\* The KV binding: working, not bound, or bound with operations that throw.
KvModes == {"ok", "unbound", "getThrows", "putThrows"}

Scenarios ==
  {[world |-> w, kvMode |-> "ok"] : w \in Worlds}
  \cup {[world |-> w, kvMode |-> m] :
          w \in {World({"en"}, "plain", <<>>, <<>>), World({}, "plain", <<>>, <<>>)},
          m \in KvModes}

(***************************************************************************)
(* State                                                                   *)
(***************************************************************************)
VARIABLES
  kvMode,        \* the state of the env.TRANSCRIPT_CACHE binding
  kv,            \* the KV namespace: key -> [value, expires]
  now,           \* clock, seconds
  ticks,         \* clock advances so far
  world,         \* what the caption-fetch capability answers
  glitches,      \* failures still to hit the next upstream calls
  faultsLeft,    \* upstream calls that may still fail in any way
  req,           \* per request handler: position and locals
  tasks,         \* un-awaited analytics updates in flight
  hist           \* completed requests, in completion order

vars == <<kvMode, kv, now, ticks, world, glitches, faultsLeft, req, tasks, hist>>

kvBound == kvMode # "unbound"

NoExpiry == 0 - 1
NoError == MkError("", "")
NoResult == [ok |-> FALSE, value |-> ""]
NoPut == [lang |-> "", data |-> "", isError |-> FALSE, logError |-> FALSE]

IdleReq ==
  [pc |-> "idle", site |-> "", url |-> "", language |-> "", videoId |-> "",
   cand |-> 0, lang |-> "", attempts |-> 0, backoff |-> 0, delay |-> 0,
   availableLanguages |-> <<>>, lastError |-> NoError, error |-> NoError,
   put |-> NoPut, after |-> NoResult, result |-> NoResult,
   thrown |-> NoError,
   \* observation of the request, not read by the handler
   calls |-> <<>>, libLog |-> <<>>, failures |-> <<>>, reads |-> <<>>,
   writes |-> <<>>, waits |-> <<>>, start |-> 0,
   \* the cache and upstream operations of the request, in order
   events |-> <<>>,
   \* how the request came in and the language argument it carried
   via |-> "", given |-> ""]

\* the request is suspended at an await: a store call, an upstream call or
\* the timer of a backoff wait
Awaiting(p) == req[p].pc \in {"get", "fetch", "wait", "put"}

\* A plausible slip: the wait is a sleep that blocks the process, so nothing
\* is resumed while some other request is in its backoff wait.
Runnable_BlockingSleep(p) ==
  /\ Awaiting(p)
  /\ \A q \in DOMAIN req \ {p} : req[q].pc # "wait"

\* The runtime can resume the request: each await hands control back to the
\* event loop, and what other requests are waiting for is not consulted.
Runnable(p) == Awaiting(p)

(***************************************************************************)
(* The KV namespace                                                        *)
(***************************************************************************)
KvPresent(store, t, key) ==
  /\ key \in DOMAIN store
  /\ (store[key].expires = NoExpiry \/ store[key].expires > t)

KvGet(store, t, key) ==
  IF KvPresent(store, t, key) THEN store[key].value ELSE Null

\* put(key, value, {expirationTtl: ttl}); ttl = NoExpiry: no expiration
KvPut(store, t, key, value, ttl) ==
  [k \in DOMAIN store \cup {key} |->
     IF k = key
     THEN [value |-> value, ttl |-> ttl,
           expires |-> IF ttl = NoExpiry THEN NoExpiry ELSE t + ttl]
     ELSE store[k]]

KvPurge(store, t) ==
  [k \in {x \in DOMAIN store : KvPresent(store, t, x)} |-> store[k]]

\* A plausible slip: the failure of the KV get is not contained.
getCachedTranscript_NoCatch(bound, store, t, videoId, language, threw) ==
  IF ~bound THEN Null
  ELSE KvGet(store, t, getTranscriptCacheKey(videoId, language))

\* utils/cache.ts getCachedTranscript; threw: the KV get throws
getCachedTranscript(bound, store, t, videoId, language, threw) ==
  IF ~bound THEN Null
  ELSE IF threw THEN Null
  ELSE KvGet(store, t, getTranscriptCacheKey(videoId, language))

\* A plausible slip: the two TTLs are swapped.
transcriptTtl_Swapped(isError) ==
  IF isError THEN SUCCESSFUL_TRANSCRIPT_TTL_SECONDS
  ELSE ERROR_RESPONSE_TTL_SECONDS

transcriptTtl(isError) ==
  IF isError THEN ERROR_RESPONSE_TTL_SECONDS
  ELSE SUCCESSFUL_TRANSCRIPT_TTL_SECONDS

\* utils/cache.ts setCachedTranscript; threw: the KV put throws
setCachedTranscript(bound, store, t, videoId, language, data, isError, threw) ==
  IF ~bound THEN store
  ELSE IF threw THEN store
  ELSE KvPut(store, t, getTranscriptCacheKey(videoId, language), data,
             transcriptTtl(isError))

(***************************************************************************)
(* Control flow of tools/transcript.ts between two awaits                  *)
(***************************************************************************)
Done(r, ok, value) ==
  [r EXCEPT !.pc = "done", !.result = [ok |-> ok, value |-> value]]

\* A plausible slip: the cache is not consulted before the fetch.
BeginGet_SkipsLookup(r, site, lang) ==
  [r EXCEPT !.pc = "fetch", !.site = site, !.lang = lang, !.attempts = 0,
            !.backoff = INITIAL_BACKOFF_MS, !.libLog = <<>>]

BeginGet(r, site, lang) ==
  [r EXCEPT !.pc = "get", !.site = site, !.lang = lang]

\* entry of lib getTranscript(videoId, language)
BeginFetch(r, site, lang) ==
  [r EXCEPT !.pc = "fetch", !.site = site, !.lang = lang, !.attempts = 0,
            !.backoff = INITIAL_BACKOFF_MS, !.libLog = <<>>]

NeedPut(r, lang, data, isError, logError, ok, value) ==
  [r EXCEPT !.pc = "put",
            !.put = [lang |-> lang, data |-> data, isError |-> isError,
                     logError |-> logError],
            !.after = [ok |-> ok, value |-> value]]

\* lines 116-121
autoFail(r) ==
  Done(r, FALSE, autoErrorMessage(r.availableLanguages, r.lastError))

\* lines 103-113 and the loop head
autoCatch(r, error) ==
  LET r1 == [r EXCEPT !.lastError = error]
      r2 == [r1 EXCEPT !.availableLanguages = Append(@, triedEntry(r.lang, error))]
  IN  IF ~isLanguageRelatedError(error) THEN autoFail(r1)
      ELSE IF r.cand = Len(languagesToTry) THEN autoFail(r2)
      ELSE BeginGet([r2 EXCEPT !.cand = r.cand + 1], "auto",
                    languagesToTry[r.cand + 1])

\* A plausible slip: the fallback does not ask whether the request was for
\* English already.
reqCatch_FallbackForEnglish(r, error) ==
  IF isLanguageRelatedError(error)
  THEN BeginGet([r EXCEPT !.error = error], "en", "en")
  ELSE IF kvBound
  THEN NeedPut([r EXCEPT !.error = error], r.language, cachedErrorValue(error),
               TRUE, TRUE, FALSE, handleYouTubeErrors(error))
  ELSE Done([r EXCEPT !.error = error], FALSE, handleYouTubeErrors(error))

\* A plausible slip: the fallback does not ask whether the failure is
\* language-related.
reqCatch_AlwaysFallback(r, error) ==
  IF r.language # "en"
  THEN BeginGet([r EXCEPT !.error = error], "en", "en")
  ELSE IF kvBound
  THEN NeedPut([r EXCEPT !.error = error], r.language, cachedErrorValue(error),
               TRUE, TRUE, FALSE, handleYouTubeErrors(error))
  ELSE Done([r EXCEPT !.error = error], FALSE, handleYouTubeErrors(error))

\* lines 151-156 and 188-195
reqCatch(r, error) ==
  IF isLanguageRelatedError(error) /\ r.language # "en"
  THEN BeginGet([r EXCEPT !.error = error], "en", "en")
  ELSE IF kvBound
  THEN NeedPut([r EXCEPT !.error = error], r.language, cachedErrorValue(error),
               TRUE, TRUE, FALSE, handleYouTubeErrors(error))
  ELSE Done([r EXCEPT !.error = error], FALSE, handleYouTubeErrors(error))

\* A plausible slip: the English failure is cached, under 'en'.
enCatch_CachesEnglishFailure(r, englishError) ==
  IF kvBound
  THEN NeedPut(r, "en", cachedErrorValue(englishError), TRUE, FALSE, FALSE,
               combinedErrorMessage(r.language, englishError))
  ELSE Done(r, FALSE, combinedErrorMessage(r.language, englishError))

\* lines 175-185
enCatch(r, englishError) ==
  IF kvBound
  THEN NeedPut(r, r.language, cachedErrorValue(r.error), TRUE, FALSE, FALSE,
               combinedErrorMessage(r.language, englishError))
  ELSE Done(r, FALSE, combinedErrorMessage(r.language, englishError))

\* A plausible slip: the transcript is cached under the language of the
\* request instead of the language that was fetched.
fetchReturned_CachesRequested(r, transcript) ==
  LET value == IF r.site = "auto" THEN autoFetchedResponse(r.lang, transcript)
               ELSE IF r.site = "en" THEN fallbackResponse(r.language, transcript)
               ELSE transcript
  IN  IF r.site # "lib" /\ kvBound
      THEN NeedPut(r, r.language, transcript, FALSE, FALSE, TRUE, value)
      ELSE Done(r, TRUE, value)

\* the caller's code after lib getTranscript returned a transcript
fetchReturned(r, transcript) ==
  LET value == IF r.site = "auto" THEN autoFetchedResponse(r.lang, transcript)
               ELSE IF r.site = "en" THEN fallbackResponse(r.language, transcript)
               ELSE transcript
  IN  IF r.site # "lib" /\ kvBound
      THEN NeedPut(r, r.lang, transcript, FALSE, FALSE, TRUE, value)
      ELSE Done(r, TRUE, value)

\* the caller's code after lib getTranscript threw
fetchThrew(r, error) ==
  LET r1 == [r EXCEPT !.thrown = error,
                      !.failures = Append(@, [lang |-> r.lang, error |-> error])]
  IN  IF r.site = "auto" THEN autoCatch(r1, error)
      ELSE IF r.site = "req" THEN reqCatch(r1, error)
      ELSE IF r.site = "en" THEN enCatch(r1, error)
      ELSE Done(r1, FALSE, error.message)

\* the caller's code after getCachedTranscript returned
cacheReturned(r, cachedData) ==
  IF r.site = "auto" THEN
    IF autoCacheHit(cachedData)
    THEN Done(r, TRUE, autoCachedResponse(r.lang, cachedData))
    ELSE BeginFetch(r, "auto", r.lang)
  ELSE IF r.site = "req" THEN
    IF truthy(cachedData) THEN
      IF startsWith(cachedData, "Error:")
      THEN reqCatch(r, MkError("Error", cachedData))
      ELSE Done(r, TRUE, cachedData)
    ELSE BeginFetch(r, "req", r.lang)
  ELSE
    IF autoCacheHit(cachedData)
    THEN Done(r, TRUE, fallbackResponse(r.language, cachedData))
    ELSE BeginFetch(r, "en", "en")

Summary(r) ==
  [url |-> r.url, language |-> r.language, videoId |-> r.videoId,
   result |-> r.result, thrown |-> r.thrown, error |-> r.error,
   calls |-> r.calls, libLog |-> r.libLog, failures |-> r.failures,
   reads |-> r.reads, writes |-> r.writes,
   waits |-> r.waits, start |-> r.start, end |-> now]

\* r2 is the handler's state at its next await (or its completion)
Step(p, r2) ==
  /\ req' = [req EXCEPT ![p] = r2]
  /\ hist' = IF r2.pc = "done" THEN Append(hist, Summary(r2)) ELSE hist

(***************************************************************************)
(* Analytics counters (utils/cache.ts, utils/analytics.ts): un-awaited     *)
(* read-then-write updates of a KV counter.                                *)
(***************************************************************************)
ANALYTICS_TTL_SECONDS == 60 * 60 * 24

Digits == "0123456789"

digitValue(c) ==
  IF \E i \in 1..10 : SubSeq(Digits, i, i) = c
  THEN (CHOOSE i \in 1..10 : SubSeq(Digits, i, i) = c) - 1
  ELSE 0 - 1

\* parseInt(s, 10) for the values the counters hold; -1 stands for NaN
RECURSIVE parseDigits(_, _)
parseDigits(s, acc) ==
  IF s = "" THEN acc
  ELSE IF digitValue(SubSeq(s, 1, 1)) < 0 THEN acc
  ELSE parseDigits(SubSeq(s, 2, Len(s)), 10 * acc + digitValue(SubSeq(s, 1, 1)))

parseInt(s) ==
  IF s = "" \/ digitValue(SubSeq(s, 1, 1)) < 0 THEN 0 - 1
  ELSE parseDigits(s, 0)

\* the UTC date of the clock, as the key suffix
dateKey(t) == "day" \o ToString(t \div 86400)

\* A plausible slip: the per-video counter is kept under the key of the
\* video's English transcript.
getVideoAnalyticsCacheKey_TranscriptKey(videoId) ==
  getTranscriptCacheKey(videoId, "en")

getVideoAnalyticsCacheKey(videoId) == "analytics:videos:" \o videoId
getDailyRequestsAnalyticsCacheKey(t) == "analytics:requests:" \o dateKey(t)
getDailyErrorsKey(date, errorType) == "analytics:errors:" \o date \o ":" \o errorType

\* A plausible slip: a counter that does not exist yet counts as 1.
nextCount_StartsAtOne(currentValue) ==
  LET count == IF truthy(currentValue) THEN parseInt(currentValue) ELSE 1
  IN  IF count < 0 THEN "1" ELSE ToString(count + 1)

\* the value a counter update writes after reading currentValue
nextCount(currentValue) ==
  LET count == IF truthy(currentValue) THEN parseInt(currentValue) ELSE 0
  IN  IF count < 0 THEN "1" ELSE ToString(count + 1)

Task(fn, key, ttl) ==
  [fn |-> fn, key |-> key, pc |-> "get", value |-> "", ttl |-> ttl]

trackDailyRequests(t) ==
  Task("trackDailyRequests", getDailyRequestsAnalyticsCacheKey(t), NoExpiry)

incrementVideoRequestCount(videoId) ==
  Task("incrementVideoRequestCount", getVideoAnalyticsCacheKey(videoId), NoExpiry)

logRequest(t, errorType) ==
  Task("logRequest", getDailyErrorsKey(dateKey(t), errorType),
       ANALYTICS_TTL_SECONDS * 2)

RemoveAt(seq, i) == SubSeq(seq, 1, i - 1) \o SubSeq(seq, i + 1, Len(seq))

\* await env.TRANSCRIPT_CACHE.get(cacheKey) of a counter update
AnalyticsGet(i) ==
  /\ i \in 1..Len(tasks)
  /\ tasks[i].pc = "get"
  /\ tasks' = IF kvMode = "getThrows" THEN RemoveAt(tasks, i)
              ELSE [tasks EXCEPT ![i].pc = "put",
                      ![i].value = nextCount(KvGet(kv, now, tasks[i].key))]
  /\ UNCHANGED <<kvMode, kv, now, ticks, world, glitches, faultsLeft, req, hist>>

\* await env.TRANSCRIPT_CACHE.put(cacheKey, ...) of a counter update
AnalyticsPut(i) ==
  /\ i \in 1..Len(tasks)
  /\ tasks[i].pc = "put"
  /\ kv' = IF kvMode = "putThrows" THEN kv
           ELSE KvPut(kv, now, tasks[i].key, tasks[i].value, tasks[i].ttl)
  /\ tasks' = RemoveAt(tasks, i)
  /\ UNCHANGED <<kvMode, now, ticks, world, glitches, faultsLeft, req, hist>>

(***************************************************************************)
(* tools/transcript.ts getTranscript(url, env, language) up to its first   *)
(* await.                                                                  *)
(***************************************************************************)
Started == Len(hist) + Cardinality({p \in DOMAIN req : req[p].pc \notin {"idle", "done"}})

\* tools/transcript.ts getTranscript(url, env, language), lines 42-69, up to
\* its first await; via and given record the entry point and its argument
StartAs(p, url, language, via, given) ==
  /\ req[p].pc \in {"idle", "done"}
  /\ Started < MaxRequests
  /\ LET r0 == [IdleReq EXCEPT !.url = url, !.language = language, !.start = now,
                               !.via = via, !.given = given]
     IN  IF ~isValidYouTubeUrl(url)
         THEN /\ Step(p, Done(r0, FALSE, "Invalid YouTube URL provided."))
              /\ tasks' = tasks
         ELSE LET videoId == extractVideoId(normalizeYouTubeUrl(url))
                  r1 == [r0 EXCEPT !.videoId = videoId]
              IN  IF videoId = NoId
                  THEN /\ Step(p, Done(r0, FALSE, "Could not extract video ID from the URL."))
                       /\ tasks' = tasks
                  ELSE /\ tasks' = IF kvBound
                                   THEN tasks \o <<trackDailyRequests(now),
                                                   incrementVideoRequestCount(videoId)>>
                                   ELSE tasks
                       /\ IF language = "auto"
                          THEN Step(p, BeginGet([r1 EXCEPT !.cand = 1], "auto",
                                                languagesToTry[1]))
                          ELSE Step(p, BeginGet(r1, "req", language))
  /\ UNCHANGED <<kvMode, kv, now, ticks, world, glitches, faultsLeft>>

Start(p, url, language) == StartAs(p, url, language, "direct", language)

\* The language argument left out by the caller.
Omitted == "<undefined>"

\* tools/transcript.ts line 42: language: string = 'auto'
defaultLanguage(language) == IF language = Omitted THEN "auto" ELSE language

\* index.ts line 67: const { url, language = 'en' } = args
toolsCallLanguage(language) == IF language = Omitted THEN "en" ELSE language

\* getTranscript called directly with the language argument given or not
DirectCall(p, url, language) ==
  StartAs(p, url, defaultLanguage(language), "direct", language)

\* index.ts lines 62-79: a tools/call request for get_transcript
ToolsCall(p, url, language) ==
  StartAs(p, url, defaultLanguage(toolsCallLanguage(language)), "tools/call",
          language)

\* One cache or upstream operation of a request.  how: of a get, "ok"; of an
\* upstream call, "ok", "threw" (the retry-fetch raised) or "retry"; of a
\* put, "transcript" or "error".
Event(op, lang, how) == [op |-> op, lang |-> lang, how |-> how]

\* await getCachedTranscript(env, videoId, lang) and the code up to the next await
CacheGet(p) ==
  /\ req[p].pc = "get"
  /\ Runnable(p)
  /\ LET r == req[p]
         cachedData == getCachedTranscript(kvBound, kv, now, r.videoId, r.lang,
                                           kvMode = "getThrows")
         key == getTranscriptCacheKey(r.videoId, r.lang)
         r1 == [r EXCEPT !.reads = Append(@,
                  [lang |-> r.lang, value |-> cachedData,
                   errorEntry |-> /\ cachedData # Null
                                  /\ kv[key].ttl = ERROR_RESPONSE_TTL_SECONDS]),
                         !.events = Append(@, Event("get", r.lang, "ok"))]
     IN  Step(p, cacheReturned(r1, cachedData))
  /\ UNCHANGED <<kvMode, kv, now, ticks, world, glitches, faultsLeft, tasks>>

\* What the caption-fetch capability answers to one call: the next glitch,
\* else what the world holds for the language; or, while faultsLeft allows,
\* any failure.
Answer(ok, segments, message) ==
  [ok |-> ok, segments |-> segments, message |-> message]

WorldAnswer(lang) ==
  IF glitches # <<>> THEN Answer(FALSE, <<>>, Head(glitches))
  ELSE IF lang \in DOMAIN world.broken THEN Answer(FALSE, <<>>, world.broken[lang])
  ELSE IF lang \in world.avail THEN Answer(TRUE, Segments(world.kind, lang), "")
  ELSE Answer(FALSE, <<>>, NoTranscriptMessage)

UpstreamOutcomes(lang) ==
  IF faultsLeft > 0
  THEN {WorldAnswer(lang)} \cup {Answer(FALSE, <<>>, m) : m \in FaultMessages}
  ELSE {WorldAnswer(lang)}

\* lib getTranscript: one iteration of the retry loop (lines 124-180), then
\* the caller's code up to its next await
FetchAttempt(p) ==
  /\ req[p].pc = "fetch"
  /\ Runnable(p)
  /\ \E o \in UpstreamOutcomes(req[p].lang) :
       LET r == req[p]
           r1 == [r EXCEPT !.calls = Append(@, r.lang),
                           !.libLog = Append(@, [ok |-> o.ok, message |-> o.message])]
           ev(how) == [r1 EXCEPT !.events = Append(@, Event("call", r.lang, how))]
       IN  /\ faultsLeft' = IF faultsLeft > 0 THEN faultsLeft - 1 ELSE 0
           /\ glitches' = IF glitches # <<>> THEN Tail(glitches) ELSE glitches
           /\ IF o.ok
              THEN Step(p, fetchReturned(ev("ok"),
                     sanitizeTranscriptText(join(o.segments, " "))))
              ELSE LET attempts == r.attempts + 1
                       c == catchAttempt(attempts, r.backoff, r.videoId, r.lang,
                                         o.message)
                   IN  IF c.kind = "throw"
                       THEN Step(p, fetchThrew([ev("threw") EXCEPT !.attempts = attempts],
                                               c.error))
                       ELSE Step(p, [ev("retry") EXCEPT !.attempts = attempts,
                                                        !.pc = "wait",
                                                        !.delay = c.delay])
  /\ UNCHANGED <<kvMode, kv, now, ticks, world, tasks>>

\* A plausible slip: the base delay is not doubled after a wait.
BackoffElapsed_NoDoubling(p) ==
  /\ req[p].pc = "wait"
  /\ Runnable(p)
  /\ Step(p, [req[p] EXCEPT !.pc = "fetch",
                            !.waits = Append(@, req[p].delay), !.delay = 0])
  /\ UNCHANGED <<kvMode, kv, now, ticks, world, glitches, faultsLeft, tasks>>

\* the setTimeout of the backoff fires; backoff *= 2; continue
BackoffElapsed(p) ==
  /\ req[p].pc = "wait"
  /\ Runnable(p)
  /\ Step(p, [req[p] EXCEPT !.pc = "fetch", !.backoff = @ * 2,
                            !.waits = Append(@, req[p].delay), !.delay = 0])
  /\ UNCHANGED <<kvMode, kv, now, ticks, world, glitches, faultsLeft, tasks>>

\* await setCachedTranscript(...) and the code after it
CachePut(p) ==
  /\ req[p].pc = "put"
  /\ Runnable(p)
  /\ LET r == req[p]
         threw == kvMode = "putThrows"
         r1 == [r EXCEPT !.writes = Append(@, [lang |-> r.put.lang,
                                               data |-> r.put.data,
                                               isError |-> r.put.isError,
                                               stored |-> ~threw,
                                               at |-> now]),
                         !.events = Append(@, Event("put", r.put.lang,
                                      IF r.put.isError THEN "error" ELSE "transcript"))]
     IN  /\ kv' = setCachedTranscript(kvBound, kv, now, r.videoId, r.put.lang,
                                      r.put.data, r.put.isError, threw)
         /\ tasks' = IF r.put.logError
                     THEN Append(tasks, logRequest(now,
                            IF r.error.name = "" THEN "FetchError" ELSE r.error.name))
                     ELSE tasks
         /\ Step(p, Done(r1, r.after.ok, r.after.value))
  /\ UNCHANGED <<kvMode, now, ticks, world, glitches, faultsLeft>>

\* time passes; the store drops the entries whose TTL has run out.  The clock
\* is advanced once a request has been handled: before the first one the store
\* is empty and an advance would only move the origin of time.
Tick ==
  /\ ticks < MaxTicks
  /\ hist # <<>>
  /\ \A p \in DOMAIN req : req[p].pc \in {"idle", "done"}
  /\ now' = now + TickSeconds
  /\ ticks' = ticks + 1
  /\ kv' = KvPurge(kv, now + TickSeconds)
  /\ UNCHANGED <<kvMode, world, glitches, faultsLeft, req, tasks, hist>>

(***************************************************************************)
(* Specifications                                                          *)
(***************************************************************************)
Init ==
  /\ \E s \in Scenarios :
       /\ world = s.world
       /\ kvMode = s.kvMode
       /\ glitches = s.world.glitches
  /\ kv = <<>>
  /\ now = 0
  /\ ticks = 0
  /\ faultsLeft = 0
  /\ req = [p \in Procs |-> IdleReq]
  /\ tasks = <<>>
  /\ hist = <<>>

Next ==
  \/ \E p \in Procs, rq \in Requests : Start(p, rq.url, rq.language)
  \/ \E p \in Procs : CacheGet(p)
  \/ \E p \in Procs : FetchAttempt(p)
  \/ \E p \in Procs : BackoffElapsed(p)
  \/ \E p \in Procs : CachePut(p)
  \/ Tick

Spec == Init /\ [][Next]_vars

\* The request handlers with an upstream that recovers: its first calls fail,
\* whatever their language, and the later ones answer by what exists.
RecoveryWorlds ==
  { World({"en"}, "plain", <<>>,
          <<"transcripts are disabled", "transcripts are disabled">>),
    World({"en"}, "plain", <<>>,
          [i \in 1..(2 * MAX_RETRIES) |-> "Unexpected token < in JSON"]),
    World({"en", "tr"}, "plain", <<>>,
          [i \in 1..MAX_RETRIES |-> "Too Many Requests"]) }

InitRecovery ==
  /\ world \in RecoveryWorlds
  /\ kvMode = "ok"
  /\ glitches = world.glitches
  /\ kv = <<>>
  /\ now = 0
  /\ ticks = 0
  /\ faultsLeft = 0
  /\ req = [p \in Procs |-> IdleReq]
  /\ tasks = <<>>
  /\ hist = <<>>

SpecRecovery == InitRecovery /\ [][Next]_vars

\* The two entry points of a get_transcript request, with the language
\* argument given or left out.
CallWorlds ==
  { World({"en"}, "plain", <<>>, <<>>),
    World({"es"}, "plain", <<>>, <<>>),
    World({"en"}, "plain", <<>>, <<"Request timed out">>) }

CallLanguages == {Omitted, "auto", "en"}

InitCall ==
  /\ world \in CallWorlds
  /\ kvMode = "ok"
  /\ glitches = world.glitches
  /\ kv = <<>>
  /\ now = 0
  /\ ticks = 0
  /\ faultsLeft = 0
  /\ req = [p \in Procs |-> IdleReq]
  /\ tasks = <<>>
  /\ hist = <<>>

NextCall ==
  \/ \E p \in Procs, url \in Urls, language \in CallLanguages :
       DirectCall(p, url, language)
  \/ \E p \in Procs, url \in Urls, language \in CallLanguages :
       ToolsCall(p, url, language)
  \/ \E p \in Procs : CacheGet(p)
  \/ \E p \in Procs : FetchAttempt(p)
  \/ \E p \in Procs : BackoffElapsed(p)
  \/ \E p \in Procs : CachePut(p)
  \/ Tick

SpecCall == InitCall /\ [][NextCall]_vars

\* lib getTranscript(videoId, language) on its own: every attempt may fail
\* in every way.
FetchWorlds ==
  {World({}, "plain", <<>>, <<>>), World({"en"}, "plain", <<>>, <<>>),
   World({"en", "tr"}, "errlike", <<>>, <<>>), World({"tr"}, "empty", <<>>, <<>>)}

InitFetch ==
  /\ kvMode = "unbound"
  /\ kv = <<>>
  /\ now = 0
  /\ ticks = 0
  /\ world \in FetchWorlds
  /\ glitches = <<>>
  /\ faultsLeft = MAX_RETRIES
  /\ \E videoId \in {"abc"}, language \in {"en", "tr"} :
       req = [p \in Procs |->
                BeginFetch([IdleReq EXCEPT !.videoId = videoId,
                                           !.language = language],
                           "lib", language)]
  /\ tasks = <<>>
  /\ hist = <<>>

NextFetch ==
  \/ \E p \in Procs : FetchAttempt(p)
  \/ \E p \in Procs : BackoffElapsed(p)

SpecFetch == InitFetch /\ [][NextFetch]_vars

(***************************************************************************)
(* Properties of the retry-fetch protocol (SpecFetch)                      *)
(***************************************************************************)
TerminalNames == {"VideoUnavailableError", "InvalidVideoError"}

\* a failure message that the catch block answers with VideoUnavailable or
\* InvalidVideo
TerminalMessages ==
  {"No transcript found for this video", "transcripts are disabled",
   "This video is unavailable", "Video not found or private",
   "Invalid video ID",
   "No transcript found for this video: Video not found or private"}

\* a failure message that the catch block retries
TransientMessages ==
  {"", "Request timed out", "network failure loading captions",
   "Too Many Requests", "Unexpected token < in JSON",
   "network: No transcript found for this video",
   "This video is unavailable (HTTP 403)"}

NetworkOrRateMessages ==
  {"Request timed out", "network failure loading captions",
   "Too Many Requests", "network: No transcript found for this video",
   "This video is unavailable (HTTP 403)"}

\* C2 (as stated): whenever the retry-fetch fails with VideoUnavailable or
\* InvalidVideo, exactly one upstream call was made during that invocation.
C2_ExactlyOneCall ==
  \A p \in DOMAIN req :
    (req[p].site = "lib" /\ req[p].pc = "done"
       /\ req[p].thrown.name \in TerminalNames)
    => Len(req[p].libLog) = 1

\* C2 (amended): the attempt whose failure is classified VideoUnavailable or
\* InvalidVideo is never retried: it is the last upstream call of the
\* invocation, which then fails with that error; the attempts before it
\* failed with retried (network, rate-limit or unclassified) errors, so the
\* invocation made exactly one call when its first attempt is so classified.
C2_TerminalAttemptIsLast ==
  \A p \in DOMAIN req :
    LET r == req[p]
    IN  r.site = "lib" =>
          /\ \A i \in 1..Len(r.libLog) :
               (~r.libLog[i].ok /\ r.libLog[i].message \in TerminalMessages)
               => /\ i = Len(r.libLog)
                  /\ r.pc = "done"
                  /\ ~r.result.ok
                  /\ r.thrown.name \in TerminalNames
          /\ (r.pc = "done" /\ r.thrown.name \in TerminalNames)
             => /\ r.libLog[Len(r.libLog)].message \in TerminalMessages
                /\ \A i \in 1..(Len(r.libLog) - 1) :
                     r.libLog[i].message \in TransientMessages
                /\ (r.libLog[1].message \in TerminalMessages
                      => Len(r.libLog) = 1)

C2_Witness ==
  \E p \in DOMAIN req :
    /\ req[p].site = "lib" /\ req[p].pc = "done"
    /\ req[p].thrown.name = "VideoUnavailableError"
    /\ Len(req[p].libLog) = 3
    /\ req[p].libLog[1].message = "Request timed out"

\* C3: one invocation of the retry-fetch makes at most 3 upstream calls, and
\* when every attempt fails network-shaped or rate-limit-shaped it makes
\* exactly 3 calls and then raises NetworkError or RateLimited.
C3_AtMostThreeCalls ==
  \A p \in DOMAIN req :
    LET r == req[p]
    IN  r.site = "lib" =>
          /\ Len(r.libLog) <= 3
          /\ Len(r.waits) <= 2
          /\ (r.pc = "done"
                /\ \A i \in 1..Len(r.libLog) :
                     ~r.libLog[i].ok /\ r.libLog[i].message \in NetworkOrRateMessages)
             => /\ Len(r.libLog) = 3
                /\ ~r.result.ok
                /\ r.thrown.name \in {"NetworkError", "RateLimitError"}

C3_Witness ==
  \E p \in DOMAIN req :
    /\ req[p].site = "lib" /\ req[p].pc = "done"
    /\ Len(req[p].libLog) = 3
    /\ req[p].thrown.name = "RateLimitError"
    /\ req[p].libLog[1].message = "Request timed out"
    /\ req[p].libLog[3].message = "Too Many Requests"

(***************************************************************************)
(* Properties of the resolution strategy (Spec), stated over the completed *)
(* requests.                                                               *)
(***************************************************************************)
Exact(h) == h.videoId # "" /\ h.language # "auto"
Auto(h) == h.videoId # "" /\ h.language = "auto"

\* every upstream call of the request was made for its requested language
FetchedOwnLanguage(h) ==
  /\ Len(h.calls) > 0
  /\ \A i \in 1..Len(h.calls) : h.calls[i] = h.language

\* C1: with the store bound and working, in exact-language mode, after a
\* request for (videoId, lang) obtained a transcript from upstream, the
\* immediately following request for the same (videoId, lang) returns the
\* same text and makes no upstream call, whatever the transcript text is.
C1_SecondRequestFromCache ==
  \A i \in 1..(Len(hist) - 1) :
    LET a == hist[i]
        b == hist[i + 1]
    IN  (/\ kvMode = "ok"
         /\ Exact(a) /\ a.result.ok /\ FetchedOwnLanguage(a)
         /\ b.videoId = a.videoId /\ b.language = a.language
         /\ b.start = a.end)
        => /\ b.result = a.result
           /\ b.calls = <<>>

\* C4: in exact-language mode, when the cache holds an error entry for
\* (videoId, lang), the request fails with the stored error's message and
\* makes no upstream call for any language.
C4_CachedErrorReraised ==
  \A i \in 1..Len(hist) :
    LET h == hist[i]
    IN  (Exact(h) /\ Len(h.reads) > 0 /\ h.reads[1].errorEntry)
        => /\ ~h.result.ok
           /\ "Error: " \o h.result.value = h.reads[1].value
           /\ h.calls = <<>>

\* C5: a request that finds an unexpired error entry for (videoId, lang)
\* writes no error entry to that key, so the entry written at time t is
\* gone at t + 5 minutes whatever requests arrive in between.
C5_ErrorEntryNotRewritten ==
  \A i \in 1..Len(hist) :
    LET h == hist[i]
    IN  \A j \in 1..Len(h.reads), k \in 1..Len(h.writes) :
          (h.reads[j].errorEntry /\ h.writes[k].stored /\ h.writes[k].isError)
          => h.writes[k].lang # h.reads[j].lang

\* C6: in auto-detect mode a transcript served from the cache for candidate
\* X is returned with the auto-detected-language annotation for X, as it
\* was when it was first fetched.
C6_CachedAutoAnnotated ==
  \A i \in 1..Len(hist) :
    LET h == hist[i]
        last == h.reads[Len(h.reads)]
    IN  (Auto(h) /\ h.result.ok /\ Len(h.reads) > 0
         /\ (h.calls = <<>> \/ h.calls[Len(h.calls)] # last.lang))
        => h.result.value =
             "[Auto-detected language: " \o last.lang \o "]\n\n" \o last.value

\* The message the caller gets for an error of the retry-fetch, by its class.
ClassifiedMessage(name) ==
  IF name = "VideoUnavailableError" THEN "No transcript available for this video."
  ELSE IF name = "RateLimitError" THEN "Service temporarily busy, try again in a few minutes."
  ELSE IF name = "NetworkError" THEN "Unable to fetch transcript, please try again."
  ELSE IF name = "InvalidVideoError" THEN "Video not found or private."
  ELSE "An unexpected error occurred while fetching the transcript."

\* C7: in auto-detect mode, when a candidate fails with an error that is not
\* language-related, no later candidate is tried and the error raised is the
\* classification of that failure, whatever happened to earlier candidates.
C7_NonLanguageFailureRaised ==
  \A i \in 1..Len(hist) :
    LET h == hist[i]
        f == h.failures[Len(h.failures)]
    IN  (Auto(h) /\ Len(h.failures) > 0 /\ ~isLanguageRelatedError(f.error))
        => /\ ~h.result.ok
           /\ h.reads[Len(h.reads)].lang = f.lang
           /\ h.calls[Len(h.calls)] = f.lang
           /\ h.result.value = ClassifiedMessage(f.error.name)

Candidates12 ==
  <<"en", "es", "fr", "de", "tr", "pt", "ja", "ko", "zh", "it", "ru", "ar">>

\* The transcript text of a language in a world, as the retry-fetch returns it.
WorldText(k, lang) ==
  IF k = "plain" THEN "[" \o lang \o "] hello\nworld"
  ELSE IF k = "errlike" THEN "Error: " \o lang
  ELSE ""

\* C8: in auto-detect mode, when all 12 candidates fail with language-related
\* errors, the request fails with one aggregate error that lists every tried
\* language with its failure reason, in candidate order.  Stated of each
\* request in the state where its handler has returned.
C8_AggregateListsEveryLanguage ==
  \A p \in Procs :
    LET h == req[p]
    IN  (/\ h.pc = "done"
         /\ Auto(h)
         /\ Len(h.failures) = 12
         /\ \A j \in 1..12 : isLanguageRelatedError(h.failures[j].error))
        => /\ ~h.result.ok
           /\ \A j \in 1..12 : h.failures[j].lang = Candidates12[j]
           /\ h.result.value =
                "No transcript available in any tested language. Tried: "
                  \o join([j \in 1..12 |->
                             Candidates12[j] \o ": " \o h.failures[j].error.message],
                          ", ")

C8_Witness ==
  \E i \in 1..Len(hist) :
    /\ Auto(hist[i])
    /\ Len(hist[i].failures) = 12
    /\ hist[i].failures[12].error.name = "NetworkError"
    /\ ~hist[i].result.ok
    /\ Len(hist[i].calls) = 36

\* C9: auto-detect mode tries the candidates in the fixed order starting with
\* English and returns the transcript of the first candidate that succeeds,
\* annotated with its language; when only a Spanish transcript exists and the
\* cache is empty it returns the Spanish transcript annotated 'es' after
\* exactly two upstream calls, one for en and one for es.
C9_FirstSuccessfulCandidate ==
  \A i \in 1..Len(hist) :
    LET h == hist[i]
        n == Len(h.reads)
    IN  Auto(h) =>
          /\ \A j \in 1..n : h.reads[j].lang = Candidates12[j]
          /\ (h.result.ok /\ h.calls # <<>> /\ h.calls[Len(h.calls)] = h.reads[n].lang)
             => /\ Len(h.failures) = n - 1
                /\ h.result.value =
                     "[Auto-detected language: " \o Candidates12[n] \o "]\n\n"
                       \o WorldText(world.kind, Candidates12[n])
          /\ (/\ world.avail = {"es"} /\ world.broken = <<>> /\ world.glitches = <<>>
              /\ \A j \in 1..n : h.reads[j].value = Null)
             => /\ h.result = [ok |-> TRUE,
                               value |-> "[Auto-detected language: es]\n\n[es] hello\nworld"]
                /\ h.calls = <<"en", "es">>

C9_Witness ==
  \E i \in 1..Len(hist) :
    /\ Auto(hist[i])
    /\ world.avail = {"es"}
    /\ hist[i].calls = <<"en", "es">>
    /\ hist[i].result.value = "[Auto-detected language: es]\n\n[es] hello\nworld"

\* the English transcript the request can get: the cached one, else upstream's
EnglishCached(h) ==
  \E j \in 1..Len(h.reads) :
    /\ h.reads[j].lang = "en"
    /\ h.reads[j].value \notin {Null, ""}
    /\ ~startsWith(h.reads[j].value, "Error:")

EnglishText(h) ==
  IF EnglishCached(h)
  THEN (CHOOSE x \in {h.reads[j] : j \in 1..Len(h.reads)} : x.lang = "en").value
  ELSE WorldText(world.kind, "en")

\* C10: in exact-language mode with requested language L other than 'en',
\* when L fails with a language-related error and an English transcript is
\* obtainable (cached or from upstream), the request succeeds and returns the
\* English transcript prefixed with the note that L was not available and
\* English is shown instead.
C10_EnglishFallback ==
  \A i \in 1..Len(hist) :
    LET h == hist[i]
    IN  (/\ Exact(h) /\ h.language # "en"
         /\ h.error # NoError /\ isLanguageRelatedError(h.error)
         /\ (EnglishCached(h)
               \/ ("en" \in world.avail /\ "en" \notin DOMAIN world.broken)))
        => /\ h.result.ok
           /\ h.result.value =
                "[Requested language '" \o h.language
                  \o "' not available, showing English instead]\n\n"
                  \o EnglishText(h)

C10_Witness ==
  \E i \in 1..Len(hist) :
    /\ hist[i].language = "tr"
    /\ hist[i].calls = <<"tr", "en">>
    /\ hist[i].result =
         [ok |-> TRUE,
          value |-> "[Requested language 'tr' not available, showing English instead]\n\n[en] hello\nworld"]

C10_WitnessCached ==
  \E i \in 1..Len(hist) :
    /\ hist[i].language = "tr"
    /\ hist[i].calls = <<"tr">>
    /\ EnglishCached(hist[i])
    /\ hist[i].result.ok

(***************************************************************************)
(* Exact-language mode: failures (Spec)                                    *)
(***************************************************************************)
\* the handler of p has returned or thrown
Returned(p) == req[p].pc = "done"

\* the upstream fetch for the requested language L # 'en' failed
\* language-related and the upstream fetch for English failed too
FallbackFailed(h) ==
  /\ Exact(h) /\ h.language # "en"
  /\ Len(h.failures) = 2
  /\ h.failures[1].lang = h.language
  /\ h.failures[2].lang = "en"
  /\ isLanguageRelatedError(h.failures[1].error)

CombinedError(h) ==
  [ok |-> FALSE,
   value |-> "Transcript not available in '" \o h.language
               \o "' and English fallback failed: "
               \o handleYouTubeErrors(h.failures[2].error)]

OriginalErrorWrite(h, w) ==
  /\ w.lang = h.language
  /\ w.isError
  /\ w.data = "Error: " \o handleYouTubeErrors(h.failures[1].error)

\* C11 (as stated): in exact-language mode, when the requested language L
\* (not 'en') fails language-related and the English fallback fails too, the
\* request writes exactly one cache entry, error-tagged under (videoId, L)
\* and holding the original failure, and raises the combined error.
C11_OneErrorWrite ==
  \A p \in Procs :
    LET h == req[p]
    IN  (Returned(p) /\ FallbackFailed(h))
        => /\ Len(h.writes) = 1
           /\ OriginalErrorWrite(h, h.writes[1])
           /\ h.result = CombinedError(h)

\* C11 (amended): in that case the request raises the combined error citing
\* L and the classified English failure; with the store bound it issues
\* exactly one cache write, error-tagged under (videoId, L) with the
\* classified original failure (so none under 'en'), which a working store
\* holds afterwards with the error TTL; with the store not bound it issues
\* no cache write.
C11_OneErrorWriteWhenBound ==
  \A p \in Procs :
    LET h == req[p]
        key == getTranscriptCacheKey(h.videoId, h.language)
    IN  (Returned(p) /\ FallbackFailed(h))
        => /\ h.result = CombinedError(h)
           /\ kvBound => /\ Len(h.writes) = 1
                         /\ OriginalErrorWrite(h, h.writes[1])
           /\ ~kvBound => h.writes = <<>>
           /\ (kvMode = "ok" /\ now = h.writes[1].at)
              => /\ key \in DOMAIN kv
                 /\ kv[key].value = h.writes[1].data
                 /\ kv[key].ttl = 300

C11_Witness ==
  \E p \in Procs :
    /\ Returned(p) /\ FallbackFailed(req[p])
    /\ kvMode = "ok"
    /\ req[p].language = "tr"
    /\ Len(req[p].writes) = 1
    /\ req[p].result.value =
         "Transcript not available in 'tr' and English fallback failed: No transcript available for this video."

\* the upstream fetch for the requested language failed, and the failure is
\* not language-related or the requested language is 'en'
OwnFetchFailed(h) ==
  /\ Exact(h)
  /\ Len(h.failures) >= 1
  /\ h.failures[1].lang = h.language
  /\ (h.language = "en" \/ ~isLanguageRelatedError(h.failures[1].error))

ClassifiedError(h) ==
  [ok |-> FALSE, value |-> handleYouTubeErrors(h.failures[1].error)]

\* C12 (as stated): in exact-language mode, when the fetch for the requested
\* language fails and the failure is not language-related or the language is
\* 'en', no upstream call is made for another language, the classified error
\* is cached error-tagged under the requested language, and the same
\* classified message is raised.
C12_ErrorCachedAndRaised ==
  \A p \in Procs :
    LET h == req[p]
    IN  (Returned(p) /\ OwnFetchFailed(h))
        => /\ \A i \in 1..Len(h.calls) : h.calls[i] = h.language
           /\ Len(h.writes) = 1
           /\ OriginalErrorWrite(h, h.writes[1])
           /\ h.result = ClassifiedError(h)

\* C12 (amended): in that case no upstream call is made for another language
\* and the classified message is raised; with the store bound the request
\* issues exactly one cache write, error-tagged under the requested language
\* with that classified message, which a working store holds afterwards with
\* the error TTL; with the store not bound it issues no cache write.
C12_ErrorCachedWhenBound ==
  \A p \in Procs :
    LET h == req[p]
        key == getTranscriptCacheKey(h.videoId, h.language)
    IN  (Returned(p) /\ OwnFetchFailed(h))
        => /\ \A i \in 1..Len(h.calls) : h.calls[i] = h.language
           /\ Len(h.failures) = 1
           /\ h.result = ClassifiedError(h)
           /\ kvBound => /\ Len(h.writes) = 1
                         /\ OriginalErrorWrite(h, h.writes[1])
           /\ ~kvBound => h.writes = <<>>
           /\ (kvMode = "ok" /\ now = h.writes[1].at)
              => /\ key \in DOMAIN kv
                 /\ kv[key].value = "Error: " \o h.result.value
                 /\ kv[key].ttl = 300

C12_Witness ==
  \E p \in Procs :
    /\ Returned(p) /\ OwnFetchFailed(req[p])
    /\ kvMode = "ok"
    /\ req[p].language = "tr"
    /\ req[p].calls = <<"tr", "tr", "tr">>
    /\ req[p].result.value = "Service temporarily busy, try again in a few minutes."
    /\ kv[getTranscriptCacheKey("abc", "tr")].value =
         "Error: Service temporarily busy, try again in a few minutes."

C12_WitnessEnglish ==
  \E p \in Procs :
    /\ Returned(p) /\ OwnFetchFailed(req[p])
    /\ req[p].language = "en"
    /\ isLanguageRelatedError(req[p].failures[1].error)
    /\ Len(req[p].writes) = 1

(***************************************************************************)
(* Cache discipline (Spec)                                                 *)
(***************************************************************************)
endsWith(s, f) ==
  Len(s) >= Len(f) /\ SubSeq(s, Len(s) - Len(f) + 1, Len(s)) = f

ConcreteLanguages(h) ==
  {Candidates12[i] : i \in 1..12} \cup ({h.language, "en"} \ {"auto"})

\* C13: in every reachable state no transcript cache entry exists under the
\* language 'auto'; every cache write, issued or about to be issued, uses a
\* concrete language: a candidate of the auto-detect list, the requested
\* language, or 'en'.
C13_NeverCachedUnderAuto ==
  /\ \A k \in DOMAIN kv : ~endsWith(k, ":auto")
  /\ \A p \in Procs :
       LET h == req[p]
       IN  /\ \A i \in 1..Len(h.writes) : h.writes[i].lang \in ConcreteLanguages(h)
           /\ h.pc = "put" => h.put.lang \in ConcreteLanguages(h)

C13_Witness ==
  \E p \in Procs :
    /\ Returned(p) /\ Auto(req[p])
    /\ Len(req[p].writes) = 1
    /\ req[p].writes[1].lang = "es"
    /\ getTranscriptCacheKey("abc", "es") \in DOMAIN kv

\* the latest cache operation before event i of the request
LookupBefore(e, i) ==
  \E j \in 1..(i - 1) :
    /\ e[j] = Event("get", e[i].lang, "ok")
    /\ \A k \in (j + 1)..(i - 1) : e[k].op = "call" /\ e[k].lang = e[i].lang

WriteAfter(e, i, how) ==
  \E j \in (i + 1)..Len(e) : e[j] = Event("put", e[i].lang, how)

\* C14 (as stated): every upstream fetch for (videoId, lang) is preceded in
\* the same request by a cache lookup for (videoId, lang) and, with the store
\* bound, is followed by a cache write under (videoId, lang) recording its
\* outcome, when it succeeds and when it fails, in every mode.
C14_ReadThroughWriteThrough ==
  \A p \in Procs :
    LET e == req[p].events
    IN  \A i \in 1..Len(e) :
          e[i].op = "call" =>
            /\ LookupBefore(e, i)
            /\ (Returned(p) /\ kvBound /\ e[i].how = "ok")
               => WriteAfter(e, i, "transcript")
            /\ (Returned(p) /\ kvBound /\ e[i].how = "threw")
               => WriteAfter(e, i, "error")

\* C14 (amended): every upstream call for (videoId, lang) follows a cache
\* lookup for (videoId, lang) of the same request, with nothing but calls for
\* lang in between.  With the store bound, a fetch that succeeds is followed
\* at once by a transcript write under (videoId, lang).  A failure is written
\* only as the last operation of a failing exact-language request and only
\* under the requested language; such a request whose fetch failed always
\* ends with that write.  Failures of auto-detect candidates and of the
\* English fallback fetch are not written under their language.
C14_ReadThroughWriteOnOutcome ==
  \A p \in Procs :
    LET h == req[p]
        e == h.events
        n == Len(e)
    IN  /\ \A i \in 1..n : e[i].op = "call" => LookupBefore(e, i)
        /\ (Returned(p) /\ kvBound) =>
             /\ \A i \in 1..n :
                  (e[i].op = "call" /\ e[i].how = "ok")
                  => i < n /\ e[i + 1] = Event("put", e[i].lang, "transcript")
             /\ \A i \in 1..n :
                  (e[i].op = "put" /\ e[i].how = "error")
                  => /\ Exact(h) /\ ~h.result.ok
                     /\ i = n
                     /\ e[i].lang = h.language
             /\ (Exact(h) /\ ~h.result.ok /\ h.failures # <<>>)
                => e[n] = Event("put", h.language, "error")
             /\ Auto(h) =>
                  \A i \in 1..n : e[i].op = "put" => e[i].how = "transcript"

C14_Witness ==
  \E p \in Procs :
    /\ Returned(p) /\ kvBound
    /\ req[p].language = "tr"
    /\ req[p].events =
         <<Event("get", "tr", "ok"), Event("call", "tr", "threw"),
           Event("get", "en", "ok"), Event("call", "en", "ok"),
           Event("put", "en", "transcript")>>

(***************************************************************************)
(* Stored errors (SpecRecovery)                                            *)
(***************************************************************************)
\* C15: a value stored as an error for (videoId, lang) is never returned to
\* a caller as transcript text: a request that reads such a value does not
\* return it, and in exact-language mode a request that reads it for its
\* requested language raises an error.
C15_StoredErrorRaised ==
  \A p \in Procs :
    LET h == req[p]
    IN  Returned(p) =>
          \A j \in 1..Len(h.reads) :
            h.reads[j].errorEntry =>
              /\ h.result.ok => ~endsWith(h.result.value, h.reads[j].value)
              /\ (Exact(h) /\ h.reads[j].lang = h.language) => ~h.result.ok

\* the part of C15 that the code keeps: the stored error value itself is not
\* in what a successful request returns
C15_StoredErrorNotReturned ==
  \A p \in Procs :
    LET h == req[p]
    IN  Returned(p) =>
          \A j \in 1..Len(h.reads) :
            (h.reads[j].errorEntry /\ h.result.ok)
            => ~endsWith(h.result.value, h.reads[j].value)

(***************************************************************************)
(* TTL classes (Spec)                                                      *)
(***************************************************************************)
WorldTexts == {WorldText(world.kind, l) : l \in AllLanguages}

\* C16: every transcript cache write uses one of two TTLs chosen by its
\* kind: a value written as an error, always prefixed 'Error: ' and written
\* by a request that fails, gets 300 seconds; a value written as a
\* transcript, always a text the fetch returned, gets 604800 seconds; the
\* store holds each entry with the TTL of its kind.
C16_TtlByKind ==
  /\ \A k \in DOMAIN kv :
       \/ kv[k].ttl = 300 /\ startsWith(kv[k].value, "Error: ")
       \/ kv[k].ttl = 604800 /\ kv[k].value \in WorldTexts
  /\ \A p \in Procs :
       LET h == req[p]
           n == Len(h.writes)
       IN  /\ \A i \in 1..n :
                LET w == h.writes[i]
                IN  IF w.isError
                    THEN /\ startsWith(w.data, "Error: ")
                         /\ Returned(p) => ~h.result.ok
                    ELSE /\ w.data = WorldText(world.kind, w.lang)
                         /\ Returned(p) => h.result.ok
           /\ (n > 0 /\ h.writes[n].stored /\ h.writes[n].at = now)
              => LET w == h.writes[n]
                     e == kv[getTranscriptCacheKey(h.videoId, w.lang)]
                 IN  /\ e.value = w.data
                     /\ e.ttl = IF w.isError THEN 300 ELSE 604800
                     /\ e.expires = now + e.ttl

C16_Witness ==
  \E k1, k2 \in DOMAIN kv :
    /\ kv[k1].ttl = 300 /\ kv[k1].expires = kv[k1].ttl
    /\ kv[k2].ttl = 604800 /\ kv[k2].expires = kv[k2].ttl

(***************************************************************************)
(* Degraded store (Spec)                                                   *)
(***************************************************************************)
NoTranscriptFound(videoId, lang) ==
  "No transcript found for " \o videoId \o " (lang: " \o lang
    \o "). Transcripts may be disabled."

\* What a request returns from upstream alone when the world answers every
\* call by the transcripts that exist.
DirectResult(h) ==
  LET text(l) == WorldText(world.kind, l)
      has(l) == l \in world.avail
  IN  IF Auto(h) THEN
        IF \E i \in 1..12 : has(Candidates12[i])
        THEN LET i == CHOOSE i \in 1..12 :
                        /\ has(Candidates12[i])
                        /\ \A j \in 1..(i - 1) : ~has(Candidates12[j])
             IN  [ok |-> TRUE,
                  value |-> "[Auto-detected language: " \o Candidates12[i]
                              \o "]\n\n" \o text(Candidates12[i])]
        ELSE [ok |-> FALSE,
              value |-> "No transcript available in any tested language. Tried: "
                          \o join([i \in 1..12 |->
                                     Candidates12[i] \o ": "
                                       \o NoTranscriptFound(h.videoId, Candidates12[i])],
                                  ", ")]
      ELSE IF has(h.language) THEN [ok |-> TRUE, value |-> text(h.language)]
      ELSE IF h.language # "en" /\ has("en")
      THEN [ok |-> TRUE,
            value |-> "[Requested language '" \o h.language
                        \o "' not available, showing English instead]\n\n"
                        \o text("en")]
      ELSE IF h.language = "en"
      THEN [ok |-> FALSE, value |-> "No transcript available for this video."]
      ELSE [ok |-> FALSE,
            value |-> "Transcript not available in '" \o h.language
                        \o "' and English fallback failed: "
                        \o "No transcript available for this video."]

\* C17: when the key-value store is not bound, or its get or its put
\* operations throw, every cache read of a request is a miss where the store
\* is not bound or get throws, the store stays as it was where it is not
\* bound or put throws, and the request returns what upstream alone gives:
\* the transcript (with the note of its mode) or the classified error.
C17_DegradedStore ==
  \A p \in Procs :
    LET h == req[p]
    IN  (/\ Returned(p) /\ h.videoId # ""
         /\ kvMode # "ok"
         /\ world.broken = <<>> /\ world.glitches = <<>>)
        => /\ kvMode \in {"unbound", "getThrows"}
              => \A j \in 1..Len(h.reads) : h.reads[j].value = Null
           /\ kvMode \in {"unbound", "putThrows"} => kv = <<>>
           /\ h.reads # <<>> /\ h.calls # <<>>
           /\ h.result = DirectResult(h)

C17_Witness ==
  \E p \in Procs :
    /\ Returned(p)
    /\ kvMode = "getThrows"
    /\ Len(hist) = 2
    /\ hist[1].videoId = "abc" /\ hist[1].language = "en" /\ hist[1].result.ok
    /\ Len(hist[1].writes) = 1 /\ hist[1].writes[1].stored
    /\ req[p].videoId = "abc" /\ req[p].language = "en"
    /\ req[p].calls = <<"en">>
    /\ req[p].result = [ok |-> TRUE, value |-> "[en] hello\nworld"]

C17_WitnessUnbound ==
  \E p \in Procs :
    /\ Returned(p)
    /\ kvMode = "unbound"
    /\ req[p].language = "auto"
    /\ ~req[p].result.ok
    /\ Len(req[p].calls) = 12

(***************************************************************************)
(* Invalid URL (Spec)                                                      *)
(***************************************************************************)
InvalidUrls == {"https://vimeo.com/watch?v=abc"}

\* C18: a request whose URL is not a valid YouTube video URL fails with
\* 'Invalid YouTube URL provided.' and has no effect: the step that handles
\* it leaves the store and the analytics updates in flight as they were, and
\* the request made no cache read, no cache write and no upstream call.
C18_InvalidUrlNoEffect ==
  [][\A p \in Procs :
       (/\ Len(hist') = Len(hist) + 1
        /\ req'[p].pc = "done"
        /\ req'[p].url \in InvalidUrls
        /\ hist'[Len(hist')].url \in InvalidUrls)
       => /\ req[p].pc \in {"idle", "done"}
          /\ req'[p].result = [ok |-> FALSE, value |-> "Invalid YouTube URL provided."]
          /\ kv' = kv
          /\ tasks' = tasks
          /\ glitches' = glitches
          /\ req'[p].reads = <<>> /\ req'[p].writes = <<>>
          /\ req'[p].calls = <<>> /\ req'[p].events = <<>>]_vars

C18_Witness ==
  /\ Len(hist) = 2
  /\ hist[1].url \notin InvalidUrls
  /\ Len(hist[1].writes) = 1
  /\ hist[2].url \in InvalidUrls
  /\ hist[2].result.value = "Invalid YouTube URL provided."
  /\ hist[2].calls = <<>>
  /\ kv # <<>>
  /\ tasks # <<>>

(***************************************************************************)
(* Default language (SpecCall)                                             *)
(***************************************************************************)
\* C19: a get_transcript request that omits the language is resolved in
\* auto-detect mode, exactly as if 'auto' had been passed, when getTranscript
\* is called directly and when it is reached through a tools/call request:
\* its language is 'auto', and a transcript it fetches is returned with the
\* auto-detected-language annotation.
C19_OmittedLanguageIsAuto ==
  \A p \in Procs :
    LET h == req[p]
    IN  (Returned(p) /\ h.videoId # "" /\ h.given = Omitted)
        => /\ h.language = "auto"
           /\ (h.result.ok /\ h.writes # <<>>)
              => startsWith(h.result.value, "[Auto-detected language: ")

\* the direct call alone keeps C19
C19_DirectCallDefaultsToAuto ==
  \A p \in Procs :
    LET h == req[p]
    IN  (Returned(p) /\ h.videoId # "" /\ h.given = Omitted /\ h.via = "direct")
        => /\ h.language = "auto"
           /\ (h.result.ok /\ h.writes # <<>>)
              => startsWith(h.result.value, "[Auto-detected language: ")

(***************************************************************************)
(* Terminal classification (SpecFetch)                                     *)
(***************************************************************************)
HasNoTranscriptFragment(m) ==
  includes(m, "No transcript found for this video")
    \/ includes(m, "transcripts are disabled")

HasInvalidVideoFragment(m) ==
  \/ includes(m, "This video is unavailable")
  \/ includes(m, "Video not found or private")
  \/ includes(m, "Invalid video ID")

HasRetriedFragment(m) ==
  \/ includes(m, "timed out") \/ includes(m, "network")
  \/ includes(m, "ECONNRESET")
  \/ includes(toLowerCase(m), "too many requests")
  \/ includes(m, "429") \/ includes(m, "403")

\* attempt i of the invocation ended it with the error named, without a wait
EndsAt(r, i, name) ==
  /\ i = Len(r.libLog)
  /\ r.pc = "done" /\ ~r.result.ok
  /\ r.thrown.name = name
  /\ Len(r.waits) = i - 1

\* C20 (as stated): an attempt whose failure message contains a
\* no-transcript or transcripts-disabled fragment ends the retry-fetch at that
\* attempt as VideoUnavailable, and one containing an unavailable, private or
\* invalid-id fragment ends it as InvalidVideo, with no backoff wait and no
\* further upstream call, for every message containing such a fragment.
C20_FragmentEndsFetch ==
  \A p \in DOMAIN req :
    LET r == req[p]
    IN  r.site = "lib" =>
          \A i \in 1..Len(r.libLog) :
            LET m == r.libLog[i].message
            IN  ~r.libLog[i].ok =>
                  /\ HasNoTranscriptFragment(m) => EndsAt(r, i, "VideoUnavailableError")
                  /\ HasInvalidVideoFragment(m) => EndsAt(r, i, "InvalidVideoError")

\* C20 (amended): the fragments are tested in the order network, rate-limit,
\* no-transcript, invalid-video and the first match decides.  A message with
\* a no-transcript fragment and no network or rate-limit fragment ends the
\* retry-fetch at that attempt as VideoUnavailable; one with an invalid-video
\* fragment and none of the earlier kinds ends it as InvalidVideo; both
\* without a wait or a further call.  A message that also carries a network
\* or rate-limit fragment is retried like any such failure when the attempt
\* is not the third.
C20_FirstMatchingFragmentDecides ==
  \A p \in DOMAIN req :
    LET r == req[p]
    IN  r.site = "lib" =>
          \A i \in 1..Len(r.libLog) :
            LET m == r.libLog[i].message
            IN  ~r.libLog[i].ok =>
                  /\ (HasNoTranscriptFragment(m) /\ ~HasRetriedFragment(m))
                     => EndsAt(r, i, "VideoUnavailableError")
                  /\ (HasInvalidVideoFragment(m) /\ ~HasNoTranscriptFragment(m)
                        /\ ~HasRetriedFragment(m))
                     => EndsAt(r, i, "InvalidVideoError")
                  /\ (HasRetriedFragment(m) /\ i < 3)
                     => \/ Len(r.waits) >= i
                        \/ i = Len(r.libLog) /\ r.pc = "wait"

C20_Witness ==
  \E p \in DOMAIN req :
    /\ req[p].site = "lib"
    /\ Len(req[p].libLog) = 2
    /\ req[p].libLog[1].message = "This video is unavailable (HTTP 403)"
    /\ req[p].libLog[2].message = "Invalid video ID"
    /\ EndsAt(req[p], 2, "InvalidVideoError")

(***************************************************************************)
(* Backoff waits of the retry-fetch (SpecFetch)                            *)
(***************************************************************************)
\* the waits of an invocation so far, the one in progress included
AllWaits(r) == r.waits \o (IF r.pc = "wait" THEN <<r.delay>> ELSE <<>>)

RECURSIVE SumSeq(_)
SumSeq(s) == IF s = <<>> THEN 0 ELSE Head(s) + SumSeq(Tail(s))

\* the wait the claim gives for the k-th failed attempt with message m
ClaimedWait(k, m) ==
  IF errorClass(m) = "rateLimit" THEN 1000 * 2^(k - 1) * (k + 1)
  ELSE 1000 * 2^(k - 1)

\* C21: the wait after the k-th failed attempt (k = 1, 2) is 1000*2^(k-1) ms
\* for a network-shaped or unclassified failure and 1000*2^(k-1)*(k+1) ms for
\* a rate-limit-shaped one, the base delay doubling after every retried
\* failure whatever its class; the rate-limit wait is longer than the network
\* wait at the same attempt; no wait follows the final attempt; the waits of
\* one invocation add up to at most 8000 ms.
C21_BackoffSchedule ==
  \A p \in DOMAIN req :
    LET r == req[p]
        w == AllWaits(r)
    IN  r.site = "lib" =>
          /\ Len(w) <= 2
          /\ \A k \in 1..Len(w) :
               /\ ~r.libLog[k].ok
               /\ errorClass(r.libLog[k].message) \in {"network", "rateLimit", "other"}
               /\ w[k] = ClaimedWait(k, r.libLog[k].message)
          /\ r.pc = "fetch" => r.backoff = 1000 * 2^Len(w)
          /\ (r.pc = "fetch" /\ r.attempts < 2) =>
               catchAttempt(r.attempts + 1, r.backoff, r.videoId, r.lang,
                            "Too Many Requests").delay
                 > catchAttempt(r.attempts + 1, r.backoff, r.videoId, r.lang,
                                "Request timed out").delay
          /\ Len(r.libLog) = MAX_RETRIES => r.pc = "done" /\ Len(w) <= 2
          /\ (r.pc = "done" /\ ~r.result.ok) => Len(w) = Len(r.libLog) - 1
          /\ SumSeq(w) <= 8000

C21_Witness ==
  \E p \in DOMAIN req :
    /\ req[p].site = "lib" /\ req[p].pc = "done"
    /\ req[p].thrown.name = "RateLimitError"
    /\ req[p].waits = <<2000, 6000>>

C21_WitnessMixed ==
  \E p \in DOMAIN req :
    /\ req[p].site = "lib" /\ req[p].pc = "done"
    /\ Len(req[p].libLog) = MAX_RETRIES
    /\ errorClass(req[p].libLog[1].message) = "other"
    /\ errorClass(req[p].libLog[2].message) = "rateLimit"
    /\ req[p].waits = <<1000, 6000>>

(***************************************************************************)
(* Termination (SpecFair): the handlers under the assumption that every    *)
(* upstream call, store call and timer a request awaits completes.         *)
(***************************************************************************)
\* the step a suspended request takes when what it awaits completes
Resume(p) ==
  CacheGet(p) \/ FetchAttempt(p) \/ BackoffElapsed(p) \/ CachePut(p)

\* Weak fairness of Resume(p), WF_vars(Resume(p)), with ENABLED written out:
\* Resume(p) is enabled exactly when Runnable(p), since each of the four
\* actions has no other guard than the position of the request and
\* Runnable(p), and always has a successor that differs from the current
\* state.
ResumeFairness(p) == []<>(~Runnable(p)) \/ []<><<Resume(p)>>_vars

SpecFair == Init /\ [][Next]_vars /\ \A p \in Procs : ResumeFairness(p)

CallsFor(r, lang) == Cardinality({i \in 1..Len(r.calls) : r.calls[i] = lang})

\* the upstream calls of a request stay within the bounds of its mode, and a
\* request that has ended has returned a string or raised an error
C22_Bounded ==
  \A p \in DOMAIN req :
    LET r == req[p]
    IN  /\ r.language # "auto" =>
             /\ Len(r.calls) <= 6
             /\ CallsFor(r, r.language) <= 3
             /\ CallsFor(r, "en") <= 3
             /\ \A i \in 1..Len(r.calls) : r.calls[i] \in {r.language, "en"}
        /\ r.language = "auto" =>
             /\ Len(r.calls) <= 36
             /\ \A i \in 1..Len(languagesToTry) :
                  CallsFor(r, languagesToTry[i]) <= 3
        /\ r.pc = "done" => (r.result.ok \/ r.result.value # "")

\* C22: every request terminates, provided each upstream and store call
\* returns: it ends in a transcript or in an error, after at most 6 upstream
\* calls in exact-language mode (3 for the requested language, 3 for English)
\* and at most 36 in auto-detect mode (3 for each of 12 candidates).
C22_Terminates ==
  /\ []C22_Bounded
  /\ \A p \in Procs : Awaiting(p) ~> (req[p].pc = "done")

C22_Witness ==
  \E p \in DOMAIN req :
    /\ req[p].pc = "done" /\ ~req[p].result.ok
    /\ req[p].language = "auto"
    /\ Len(req[p].calls) = 36

C22_WitnessExact ==
  \E p \in DOMAIN req :
    /\ req[p].pc = "done" /\ ~req[p].result.ok
    /\ req[p].language = "tr"
    /\ CallsFor(req[p], "tr") = 3 /\ CallsFor(req[p], "en") = 3

(***************************************************************************)
(* Analytics updates running beside the requests (SpecAnalytics).  The     *)
(* updates are started un-awaited; each of their two store calls may throw,*)
(* which the update catches and logs (cache.ts 98-100, 122-124,            *)
(* analytics.ts 63-65).                                                    *)
(***************************************************************************)
\* await env.TRANSCRIPT_CACHE.get(cacheKey) of a counter update throws
AnalyticsGetFails(i) ==
  /\ i \in 1..Len(tasks)
  /\ tasks[i].pc = "get"
  /\ tasks' = RemoveAt(tasks, i)
  /\ UNCHANGED <<kvMode, kv, now, ticks, world, glitches, faultsLeft, req, hist>>

\* await env.TRANSCRIPT_CACHE.put(cacheKey, ...) of a counter update throws
AnalyticsPutFails(i) ==
  /\ i \in 1..Len(tasks)
  /\ tasks[i].pc = "put"
  /\ tasks' = RemoveAt(tasks, i)
  /\ UNCHANGED <<kvMode, kv, now, ticks, world, glitches, faultsLeft, req, hist>>

AnalyticsWorlds ==
  { World({"en"}, "plain", <<>>, <<>>),
    World({}, "plain", <<>>, <<>>),
    World({"en"}, "plain", <<>>, <<"Request timed out">>) }

AnalyticsRequests ==
  {[url |-> "https://youtu.be/abc?si=x", language |-> l] : l \in {"en", "tr"}}
    \cup {[url |-> "https://vimeo.com/watch?v=abc", language |-> "en"]}

InitAnalytics ==
  /\ world \in AnalyticsWorlds
  /\ kvMode = "ok"
  /\ glitches = world.glitches
  /\ kv = <<>>
  /\ now = 0
  /\ ticks = 0
  /\ faultsLeft = 0
  /\ req = [p \in Procs |-> IdleReq]
  /\ tasks = <<>>
  /\ hist = <<>>

\* updates of earlier requests still in flight when a request arrives; the
\* updates a request starts always run beside it
MaxPending == 0

StartBeside(p, url, language) ==
  /\ Len(tasks) <= MaxPending
  /\ Start(p, url, language)

NextAnalytics ==
  \/ \E p \in Procs, rq \in AnalyticsRequests :
       StartBeside(p, rq.url, rq.language)
  \/ \E p \in Procs : CacheGet(p)
  \/ \E p \in Procs : FetchAttempt(p)
  \/ \E p \in Procs : BackoffElapsed(p)
  \/ \E p \in Procs : CachePut(p)
  \/ \E i \in 1..Len(tasks) : AnalyticsGet(i)
  \/ \E i \in 1..Len(tasks) : AnalyticsPut(i)
  \/ \E i \in 1..Len(tasks) : AnalyticsGetFails(i)
  \/ \E i \in 1..Len(tasks) : AnalyticsPutFails(i)

SpecAnalytics == InitAnalytics /\ [][NextAnalytics]_vars

\* The reference: the same requests handled with no analytics update at all.
\* RefStart is the handler at its first await, RefRun runs it to its end on
\* the transcript store and the upstream given.
RefStart(url, language, t) ==
  LET r0 == [IdleReq EXCEPT !.url = url, !.language = language, !.start = t]
  IN  IF ~isValidYouTubeUrl(url)
      THEN Done(r0, FALSE, "Invalid YouTube URL provided.")
      ELSE LET videoId == extractVideoId(normalizeYouTubeUrl(url))
               r1 == [r0 EXCEPT !.videoId = videoId]
           IN  IF videoId = NoId
               THEN Done(r0, FALSE, "Could not extract video ID from the URL.")
               ELSE IF language = "auto"
               THEN BeginGet([r1 EXCEPT !.cand = 1], "auto", languagesToTry[1])
               ELSE BeginGet(r1, "req", language)

RefAnswer(gl, lang) ==
  IF gl # <<>> THEN Answer(FALSE, <<>>, Head(gl))
  ELSE IF lang \in DOMAIN world.broken THEN Answer(FALSE, <<>>, world.broken[lang])
  ELSE IF lang \in world.avail THEN Answer(TRUE, Segments(world.kind, lang), "")
  ELSE Answer(FALSE, <<>>, NoTranscriptMessage)

RECURSIVE RefRun(_, _, _)
RefRun(r, store, gl) ==
  IF r.pc = "done" THEN [result |-> r.result, store |-> store, gl |-> gl]
  ELSE IF r.pc = "get" THEN
    RefRun(cacheReturned(r, getCachedTranscript(kvBound, store, r.start,
                              r.videoId, r.lang, kvMode = "getThrows")),
           store, gl)
  ELSE IF r.pc = "fetch" THEN
    LET o == RefAnswer(gl, r.lang)
        gl2 == IF gl # <<>> THEN Tail(gl) ELSE gl
        attempts == r.attempts + 1
        c == catchAttempt(attempts, r.backoff, r.videoId, r.lang, o.message)
    IN  IF o.ok
        THEN RefRun(fetchReturned(r, sanitizeTranscriptText(join(o.segments, " "))),
                    store, gl2)
        ELSE IF c.kind = "throw"
        THEN RefRun(fetchThrew([r EXCEPT !.attempts = attempts], c.error), store, gl2)
        ELSE RefRun([r EXCEPT !.attempts = attempts, !.pc = "wait",
                              !.delay = c.delay], store, gl2)
  ELSE IF r.pc = "wait" THEN
    RefRun([r EXCEPT !.pc = "fetch", !.backoff = @ * 2, !.delay = 0], store, gl)
  ELSE
    RefRun(Done(r, r.after.ok, r.after.value),
           setCachedTranscript(kvBound, store, r.start, r.videoId, r.put.lang,
                               r.put.data, r.put.isError, kvMode = "putThrows"),
           gl)

\* the reference after the first k requests of a history
RECURSIVE RefAfter(_, _)
RefAfter(h, k) ==
  IF k = 0 THEN [result |-> NoResult, store |-> <<>>, gl |-> world.glitches]
  ELSE LET prev == RefAfter(h, k - 1)
       IN  RefRun(RefStart(h[k].url, h[k].language, h[k].start),
                  prev.store, prev.gl)

TranscriptEntries(store) ==
  [k \in {x \in DOMAIN store : startsWith(x, "transcript:")} |-> store[k]]

IsPrefix(s, t) == Len(s) <= Len(t) /\ SubSeq(t, 1, Len(s)) = s

\* a step of an analytics update: it advances or ends an update in flight
AnalyticsStep == ~IsPrefix(tasks, tasks')

\* C23: a failure of an analytics counter update (daily request counter,
\* per-video counter, error counter) never changes the outcome of the
\* request: every request returns the transcript or the error it returns
\* when no update runs at all, and so the same whether the updates succeed
\* or fail; the steps of a request never wait for an update (they leave the
\* updates in flight as they are), and the steps of an update leave the
\* requests and the transcript entries of the store as they are.
C23_AnalyticsNeverChangeOutcome ==
  [][/\ Len(hist') > Len(hist) =>
          hist'[Len(hist')].result = RefAfter(hist', Len(hist')).result
     /\ req' # req => IsPrefix(tasks, tasks')
     /\ AnalyticsStep =>
          /\ req' = req /\ hist' = hist
          /\ TranscriptEntries(kv') = TranscriptEntries(kv)]_vars

\* a request has returned a transcript while the counter updates it started
\* have not finished, after an earlier update failed
C23_Witness ==
  \E p \in DOMAIN req :
    /\ req[p].pc = "done" /\ req[p].result.ok
    /\ Len(hist) = 2 /\ hist[1].videoId # ""
    /\ Len(tasks) >= 1 /\ Len(tasks) <= 3
    /\ \E i \in 1..Len(tasks) : tasks[i].pc = "get"
    /\ "analytics:videos:abc" \notin DOMAIN kv

(***************************************************************************)
(* The request counters under interleaved updates (SpecCounters).  The     *)
(* requests for video abc arrive one after another, each after the counter *)
(* update of the one before has ended; the requests for video xyz, and the *)
(* updates of the daily counter, overlap freely.                           *)
(***************************************************************************)
CounterUrls ==
  {"https://youtu.be/abc?si=x", "https://www.youtube.com/watch?v=xyz&t=10"}

\* the counters as the first request finds them: key -> stored value
InitialCounters ==
  [k \in {getVideoAnalyticsCacheKey("abc"),
          getDailyRequestsAnalyticsCacheKey(0)} |->
     IF k = getVideoAnalyticsCacheKey("abc") THEN "9" ELSE "99"]

InFlight(key) == \E i \in 1..Len(tasks) : tasks[i].key = key

StartInTurn(p, url, language) ==
  /\ extractVideoId(url) = "abc" => ~InFlight(getVideoAnalyticsCacheKey("abc"))
  /\ Start(p, url, language)

InitCounters ==
  /\ world = World({"en"}, "plain", <<>>, <<>>)
  /\ kvMode = "ok"
  /\ glitches = <<>>
  /\ kv = [k \in DOMAIN InitialCounters |->
             [value |-> InitialCounters[k], ttl |-> NoExpiry, expires |-> NoExpiry]]
  /\ now = 0
  /\ ticks = 0
  /\ faultsLeft = 0
  /\ req = [p \in Procs |-> IdleReq]
  /\ tasks = <<>>
  /\ hist = <<>>

NextCounters ==
  \/ \E p \in Procs, url \in CounterUrls : StartInTurn(p, url, "en")
  \/ \E p \in Procs : CacheGet(p)
  \/ \E p \in Procs : FetchAttempt(p)
  \/ \E p \in Procs : CachePut(p)
  \/ \E i \in 1..Len(tasks) : AnalyticsGet(i)
  \/ \E i \in 1..Len(tasks) : AnalyticsPut(i)

SpecCounters == InitCounters /\ [][NextCounters]_vars

\* the number a counter holds, and the number it held at the start
Count(key) ==
  IF KvGet(kv, now, key) = Null THEN 0 ELSE parseInt(KvGet(kv, now, key))

Count0(key) ==
  IF key \in DOMAIN InitialCounters THEN parseInt(InitialCounters[key]) ELSE 0

\* the requests started so far that increment the counter
IncrementsOf(key) ==
  LET counts(videoId) ==
        key = getDailyRequestsAnalyticsCacheKey(now)
          \/ key = getVideoAnalyticsCacheKey(videoId)
  IN  Cardinality({k \in 1..Len(hist) : counts(hist[k].videoId)})
        + Cardinality({p \in DOMAIN req :
                         req[p].pc \notin {"idle", "done"} /\ counts(req[p].videoId)})

CounterKeys ==
  {getVideoAnalyticsCacheKey("abc"), getVideoAnalyticsCacheKey("xyz"),
   getDailyRequestsAnalyticsCacheKey(0)}

\* C24: the per-video and daily request counters are updated by an
\* unsynchronised read-then-write: N increments run one after another raise
\* a counter from c to exactly c+N, while N concurrently interleaved
\* increments leave it at some value between c+1 and c+N (updates can be
\* lost, never invented).
C24_LossyCounters ==
  /\ \A key \in CounterKeys :
       /\ Count(key) >= Count0(key)
       /\ Count(key) <= Count0(key) + IncrementsOf(key)
       /\ (~InFlight(key) /\ IncrementsOf(key) >= 1)
            => Count(key) >= Count0(key) + 1
       /\ \A i \in 1..Len(tasks) :
            (tasks[i].key = key /\ tasks[i].pc = "put")
              => /\ parseInt(tasks[i].value) >= Count0(key) + 1
                 /\ parseInt(tasks[i].value) <= Count0(key) + IncrementsOf(key)
  /\ LET key == getVideoAnalyticsCacheKey("abc")
     IN  ~InFlight(key) => Count(key) = Count0(key) + IncrementsOf(key)

\* two overlapping increments of the xyz counter have ended and one is lost
C24_Witness ==
  LET key == getVideoAnalyticsCacheKey("xyz")
  IN  /\ IncrementsOf(key) = 2 /\ ~InFlight(key)
      /\ Count(key) = Count0(key) + 1

\* two increments of the abc counter, one after the other, have ended
C24_WitnessInTurn ==
  LET key == getVideoAnalyticsCacheKey("abc")
  IN  /\ IncrementsOf(key) = 2 /\ ~InFlight(key)
      /\ KvGet(kv, now, key) = "11"

\* two overlapping increments of the daily counter have ended, none lost
C24_WitnessNoneLost ==
  LET key == getDailyRequestsAnalyticsCacheKey(0)
  IN  /\ IncrementsOf(key) = 2 /\ ~InFlight(key)
      /\ KvGet(kv, now, key) = "101"
      /\ \E k \in 1..Len(hist) : hist[k].videoId = "xyz"

(***************************************************************************)
(* Two requests handled at the same time (SpecConcurrent).  The store and  *)
(* upstream calls of a request complete; the timer of a backoff wait may   *)
(* take arbitrarily long, so a request may stay in its wait for ever.      *)
(***************************************************************************)
Procs2 == {1, 2}

ConcurrentWorlds ==
  { World({"en"}, "plain", <<>>, <<"Request timed out">>),
    World({"en"}, "plain", Broken("tr", "Too Many Requests"), <<>>),
    World({"en", "tr"}, "plain", <<>>, <<"This video is unavailable">>) }

ConcurrentRequests ==
  {[url |-> "https://youtu.be/abc?si=x", language |-> l] : l \in {"en", "tr"}}

InitConcurrent ==
  /\ world \in ConcurrentWorlds
  /\ kvMode = "ok"
  /\ glitches = world.glitches
  /\ kv = <<>>
  /\ now = 0
  /\ ticks = 0
  /\ faultsLeft = 0
  /\ req = [p \in Procs2 |-> IdleReq]
  /\ tasks = <<>>
  /\ hist = <<>>

NextConcurrent ==
  \/ \E p \in Procs2, rq \in ConcurrentRequests : Start(p, rq.url, rq.language)
  \/ \E p \in Procs2 : CacheGet(p)
  \/ \E p \in Procs2 : FetchAttempt(p)
  \/ \E p \in Procs2 : BackoffElapsed(p)
  \/ \E p \in Procs2 : CachePut(p)

\* the steps of a request other than the end of a backoff wait
Work(p) == CacheGet(p) \/ FetchAttempt(p) \/ CachePut(p)

\* Weak fairness of Work(p) with ENABLED written out, as in ResumeFairness;
\* no fairness is assumed of BackoffElapsed.
WorkFairness(p) ==
  []<>(~(Runnable(p) /\ req[p].pc # "wait")) \/ []<><<Work(p)>>_vars

SpecConcurrent ==
  InitConcurrent /\ [][NextConcurrent]_vars /\ \A p \in Procs2 : WorkFairness(p)

\* C25: while one request is suspended in a backoff wait between retry
\* attempts, any other concurrent request can still take every one of its
\* steps (cache lookup, upstream call, cache write, return): a request at a
\* store or upstream call can be resumed whatever the others wait for, a
\* step of one request leaves the others as they are, and every request
\* goes on to its return or to a wait of its own even if the other request
\* never leaves its wait.
C25_WaitBlocksNobody ==
  /\ [](\A p \in Procs2 : Awaiting(p) => Runnable(p))
  /\ [][\A p \in Procs2 :
          req'[p] # req[p] => \A q \in Procs2 \ {p} : req'[q] = req[q]]_vars
  /\ \A p \in Procs2 :
       (req[p].pc \in {"get", "fetch", "put"}) ~> (req[p].pc \in {"done", "wait"})

\* request 1 has looked up the cache, called upstream, written the cache and
\* returned, all while request 2 has been in its first backoff wait
C25_Witness ==
  /\ req[2].pc = "wait" /\ req[2].waits = <<>>
  /\ Len(req[2].events) = 2
  /\ req[1].pc = "done" /\ req[1].result.ok
  /\ Len(req[1].events) = 3
  /\ req[1].events[1].op = "get" /\ req[1].events[2].op = "call"
  /\ req[1].events[3].op = "put"
  /\ hist = <<>> \o <<Summary(req[1])>>

(***************************************************************************)
(* The URL resolver on its own (SpecUrl): the exports of                   *)
(* utils/url-normalize.ts applied to URLs put together from a scheme, a    *)
(* host, a path shape, an identifier and extra query parameters.           *)
(***************************************************************************)
UrlSchemes == {"https://", "http://"}

UrlHosts ==
  {"youtube.com", "www.youtube.com", "m.youtube.com", "www.youtube.de",
   "WWW.YouTube.com", "youtu.be", "www.youtu.be", "vimeo.com"}

\* the five supported shapes and one that no rule matches
SupportedShapes == {"watch", "short", "live", "embed", "shorts"}
UrlShapes == SupportedShapes \cup {"playlist"}

UrlIds == {"abc", "dQw4w9WgXcQ", "a_b-1", "a&b", "a+b", "a%26b"}

\* extra query parameters: none, after the identifier, before it
UrlExtras == {"none", "after", "before"}

UrlComponents ==
  [scheme : UrlSchemes, host : UrlHosts, shape : UrlShapes, id : UrlIds,
   extra : UrlExtras]

PathQuery(extra) ==
  IF extra = "after" THEN "?t=10"
  ELSE IF extra = "before" THEN "?si=x&v=zzz"
  ELSE ""

UrlOf(c) ==
  c.scheme \o c.host \o
    ( IF c.shape = "watch"
      THEN "/watch?" \o (IF c.extra = "before" THEN "si=x&" ELSE "")
             \o "v=" \o c.id \o (IF c.extra = "after" THEN "&t=10" ELSE "")
      ELSE IF c.shape = "short" THEN "/" \o c.id \o PathQuery(c.extra)
      ELSE IF c.shape = "playlist"
      THEN "/playlist?list=" \o c.id \o (IF c.extra = "none" THEN "" ELSE "&t=10")
      ELSE "/" \o c.shape \o "/" \o c.id \o PathQuery(c.extra) )

UrlTable == [c \in UrlComponents |-> UrlOf(c)]

\* inputs that are not put together from components
OddUrls ==
  {"", "not a url", "youtube.com/shorts/abc", "https://www.youtube.com/",
   "https://www.youtube.com/watch", "https://www.youtube.com/watch?v=",
   "https://youtu.be/", "https://m.youtube.com?v=abc",
   "https://vimeo.com/123"}

\* URLs put together from a host, a path and a query string, each with what
\* it is: the path with its kind ("watch": begins with /watch; "second":
\* begins with /live/, /embed/ or /shorts/; "root"; "other") and its first
\* two segments, the query string with the first value of v.
RuleHosts == {"youtu.be", "www.youtube.com", "m.youtube.com", "youtube.co.uk"}

RulePath(text, kind, first, second) ==
  [text |-> text, kind |-> kind, first |-> first, second |-> second]

RulePaths ==
  { RulePath("", "root", "", ""),
    RulePath("/", "root", "", ""),
    RulePath("/watch", "watch", "watch", ""),
    RulePath("/watch/ID9", "watch", "watch", "ID9"),
    RulePath("/watch_popup", "watch", "watch_popup", ""),
    RulePath("/live/ID9", "second", "live", "ID9"),
    RulePath("/live/", "second", "live", ""),
    RulePath("/live", "other", "live", ""),
    RulePath("/embed/ID9", "second", "embed", "ID9"),
    RulePath("/shorts/ID9/more", "second", "shorts", "ID9"),
    RulePath("/ID9", "other", "ID9", ""),
    RulePath("/v/ID9", "other", "v", "ID9"),
    RulePath("/playlist", "other", "playlist", "") }

RuleQuery(text, v) == [text |-> text, v |-> v]

RuleQueries ==
  { RuleQuery("", ""),
    RuleQuery("?v=Q1", "Q1"),
    RuleQuery("?v=Q1&v=Q2", "Q1"),
    RuleQuery("?list=PL1&v=Q1", "Q1"),
    RuleQuery("?list=PL1", ""),
    RuleQuery("?v=", "") }

RuleComponents == [host : RuleHosts, path : RulePaths, query : RuleQueries]

RuleUrl(c) == "https://" \o c.host \o c.path.text \o c.query.text

RuleTable == [c \in RuleComponents |-> RuleUrl(c)]

UrlInputs ==
  {UrlTable[c] : c \in UrlComponents} \cup {RuleTable[c] : c \in RuleComponents}
    \cup OddUrls

\* the three exports applied to one URL; given keeps the URL first put in
Resolved(r, url) ==
  [r EXCEPT !.url = url,
            !.videoId = extractVideoId(url),
            !.result = [ok |-> isValidYouTubeUrl(url),
                        value |-> normalizeYouTubeUrl(url)]]

ResolveUrl(p, url) ==
  /\ req[p].via = ""
  /\ req' = [req EXCEPT ![p] =
               Resolved([IdleReq EXCEPT !.via = "resolver", !.given = url], url)]
  /\ UNCHANGED <<kvMode, kv, now, ticks, world, glitches, faultsLeft, tasks, hist>>

\* the exports applied again to the URL normalizeYouTubeUrl returned
Renormalize(p) ==
  /\ req[p].via = "resolver"
  /\ req[p].videoId # NoId
  /\ req[p].result.value # req[p].url
  /\ req' = [req EXCEPT ![p] = Resolved(req[p], req[p].result.value)]
  /\ UNCHANGED <<kvMode, kv, now, ticks, world, glitches, faultsLeft, tasks, hist>>

InitUrl ==
  /\ world = World({"en"}, "plain", <<>>, <<>>)
  /\ kvMode = "ok"
  /\ glitches = world.glitches
  /\ kv = <<>>
  /\ now = 0
  /\ ticks = 0
  /\ faultsLeft = 0
  /\ req = [p \in Procs |-> IdleReq]
  /\ tasks = <<>>
  /\ hist = <<>>

NextUrl ==
  \/ \E p \in Procs, url \in UrlInputs : ResolveUrl(p, url)
  \/ \E p \in Procs : Renormalize(p)

SpecUrl == InitUrl /\ [][NextUrl]_vars

\* the canonical URL of an identifier
CanonicalUrl(id) == "https://www.youtube.com/watch?v=" \o id

\* the host is on the allow-list of isValidYouTubeUrl, bare or www.-prefixed,
\* in any letter case
BareHost(host) ==
  IF startsWith(toLowerCase(host), "www.")
  THEN SubSeq(toLowerCase(host), 5, Len(host))
  ELSE toLowerCase(host)

AllowListed(host) == BareHost(host) \in validHostnames

\* the first application of the exports to a URL put together from c
FirstOf(p, c) ==
  /\ req[p].via = "resolver"
  /\ req[p].url = req[p].given
  /\ req[p].url = UrlTable[c]

\* identifiers made of letters, digits, '-' and '_'
IsPlainId(id) ==
  /\ id # ""
  /\ \A i \in 1..Len(id) :
       \E j \in 1..Len(UpperChars \o LowerChars \o Digits \o "-_") :
         SubSeq(id, i, i) = SubSeq(UpperChars \o LowerChars \o Digits \o "-_", j, j)

\* C26 as stated: for every identifier and every supported shape on any
\* allow-listed host, with or without extra query parameters, extractVideoId
\* returns what the canonical watch?v= URL of the identifier yields, and
\* normalizeYouTubeUrl returns exactly that canonical URL.
C26_EveryShapeEveryHost ==
  \A p \in Procs : \A c \in UrlComponents :
    (FirstOf(p, c) /\ c.shape \in SupportedShapes /\ AllowListed(c.host)) =>
      /\ req[p].videoId = extractVideoId(CanonicalUrl(c.id))
      /\ req[p].result.value = CanonicalUrl(c.id)

\* C26 (amended): for every identifier made of letters, digits, '-' and '_',
\* with or without extra query parameters, the shape youtu.be/<id> on host
\* youtu.be and the shapes watch?v=<id>, /live/<id>, /embed/<id> and
\* /shorts/<id> on every other allow-listed host yield the identifier, the
\* same as the canonical URL does; the URL is valid and normalizeYouTubeUrl
\* returns exactly the canonical URL.  On host youtu.be every URL yields its
\* first path segment, whatever its shape.
C26_ShapesOnTheirHosts ==
  \A p \in Procs : \A c \in UrlComponents :
    (FirstOf(p, c) /\ IsPlainId(c.id)) =>
      /\ ( \/ c.shape = "short" /\ c.host = "youtu.be"
           \/ /\ c.shape \in SupportedShapes \ {"short"}
              /\ AllowListed(c.host)
              /\ BareHost(c.host) # "youtu.be" ) =>
           /\ req[p].videoId = c.id
           /\ req[p].videoId = extractVideoId(CanonicalUrl(c.id))
           /\ req[p].result.ok
           /\ req[p].result.value = CanonicalUrl(c.id)
      /\ c.host = "youtu.be" =>
           /\ req[p].videoId =
                (IF c.shape = "short" THEN c.id
                 ELSE IF c.shape = "playlist" THEN "playlist"
                 ELSE c.shape)
           /\ req[p].result.value = CanonicalUrl(req[p].videoId)

\* an embed URL with extra parameters, one of them named v, on the www
\* host written in capitals is resolved to the canonical URL
C26_Witness ==
  \E p \in Procs :
    /\ FirstOf(p, [scheme |-> "http://", host |-> "WWW.YouTube.com",
                   shape |-> "embed", id |-> "dQw4w9WgXcQ", extra |-> "before"])
    /\ req[p].result.value = "https://www.youtube.com/watch?v=dQw4w9WgXcQ"

\* the watch shape on host youtu.be yields the path segment "watch"
C26_WitnessShortHost ==
  \E p \in Procs :
    /\ req[p].via = "resolver"
    /\ req[p].url = "https://youtu.be/watch?v=abc"
    /\ req[p].videoId = "watch"
    /\ req[p].result.value = "https://www.youtube.com/watch?v=watch"

\* the exports have been applied to the URL normalizeYouTubeUrl returned
Renormalized(p) ==
  /\ req[p].via = "resolver"
  /\ req[p].videoId # NoId
  /\ req'[p].via = "resolver"
  /\ req'[p].url = req[p].result.value
  /\ req'[p] # req[p]

\* C27: for every URL from which an identifier is extracted, normalizing the
\* normalized URL returns it unchanged, and the normalized URL yields the
\* identifier the URL itself yields.
C27_NormalizeIdempotent ==
  [][\A p \in Procs :
       Renormalized(p) =>
         /\ req'[p].result.value = req[p].result.value
         /\ req'[p].videoId = req[p].videoId]_vars

\* The part of C27 that holds: when the identifier extracted is made of
\* letters, digits, '-' and '_', the normalized URL is a fixed point of
\* normalizeYouTubeUrl and yields the same identifier.
C27_IdempotentOnPlainIds ==
  [][\A p \in Procs :
       (Renormalized(p) /\ IsPlainId(req[p].videoId)) =>
         /\ req'[p].result.value = req[p].result.value
         /\ req'[p].videoId = req[p].videoId
         /\ req'[p].result.ok]_vars

\* https://youtu.be/a&b yields "a&b", and its normalized URL yields "a"
C27_Witness ==
  \E p \in Procs :
    /\ req[p].via = "resolver"
    /\ req[p].given = "https://youtu.be/a&b"
    /\ req[p].url = "https://www.youtube.com/watch?v=a&b"
    /\ req[p].videoId = "a"
    /\ req[p].result.value = "https://www.youtube.com/watch?v=a"

\* C28: isValidYouTubeUrl is true exactly when extractVideoId returns an
\* identifier, and extractVideoId returns none when the hostname is not on
\* the allow-list.
C28_ValidIffExtractable ==
  \A p \in Procs :
    req[p].via = "resolver" =>
      /\ req[p].result.ok <=> req[p].videoId # NoId
      /\ ~AllowListed(parseUrl(req[p].url).hostname) => req[p].videoId = NoId

\* The part of C28 that holds: a URL from which no identifier is extracted
\* is not valid, a valid URL has an allow-listed host, and on an
\* allow-listed host the URL is valid exactly when an identifier is
\* extracted.
C28_NoIdentifierNotValid ==
  \A p \in Procs :
    req[p].via = "resolver" =>
      /\ req[p].videoId = NoId => ~req[p].result.ok
      /\ req[p].result.ok => AllowListed(parseUrl(req[p].url).hostname)
      /\ AllowListed(parseUrl(req[p].url).hostname) =>
           (req[p].result.ok <=> req[p].videoId # NoId)

\* a watch URL on a host that is not allow-listed: not valid, identifier "abc"
C28_Witness ==
  \E p \in Procs :
    /\ req[p].via = "resolver"
    /\ req[p].url = "https://vimeo.com/watch?v=abc"
    /\ req[p].videoId = "abc"
    /\ ~req[p].result.ok

(***************************************************************************)
(* The text of a successful fetch (SpecText): the retry-fetch alone, on    *)
(* worlds whose caption segments are put together from pieces with         *)
(* newlines and other whitespace at their ends and inside.                 *)
(***************************************************************************)
SegmentTexts ==
  {"a", "a\n\n\nb  \n", "\n", " ", "\n\n b", "x\t", "\r\n", ""}

MaxSegments == 2

SegmentLists ==
  UNION {[1..n -> SegmentTexts] : n \in 1..MaxSegments}

TextWorlds ==
  {World({"en"}, "segments:" \o join(segs, "|"), <<>>, <<>>) : segs \in SegmentLists}

InitText ==
  /\ kvMode = "unbound"
  /\ kv = <<>>
  /\ now = 0
  /\ ticks = 0
  /\ world \in TextWorlds
  /\ glitches = <<>>
  /\ faultsLeft = 1
  /\ req = [p \in Procs |->
              BeginFetch([IdleReq EXCEPT !.videoId = "abc", !.language = "en"],
                         "lib", "en")]
  /\ tasks = <<>>
  /\ hist = <<>>

SpecText == InitText /\ [][NextFetch]_vars

\* the fetch of request p has returned its text
Fetched(p) == req[p].pc = "done" /\ req[p].result.ok

\* C29: the text a successful fetch returns is the caption segments joined
\* with single spaces and then sanitized; it has no two consecutive newline
\* characters and no whitespace at its start or end, sanitizing it again
\* changes nothing, and "a\n\n\nb  \n" sanitizes to "a\nb".
C29_SanitizedText ==
  \A p \in Procs :
    Fetched(p) =>
      LET segs == Segments(world.kind, req[p].lang)
          text == req[p].result.value
      IN  /\ text = sanitizeTranscriptText(join(segs, " "))
          /\ Len(join(segs, " ")) =
               SumSeq([i \in 1..Len(segs) |-> Len(segs[i])]) + Len(segs) - 1
          /\ \A i \in 1..Len(text) - 1 :
               ~(SubSeq(text, i, i) = "\n" /\ SubSeq(text, i + 1, i + 1) = "\n")
          /\ text # "" =>
               /\ ~isWhitespace(SubSeq(text, 1, 1))
               /\ ~isWhitespace(SubSeq(text, Len(text), Len(text)))
          /\ sanitizeTranscriptText(text) = text
          /\ segs = <<"a\n\n\nb  \n">> => text = "a\nb"

\* the input of the example, fetched after a failed first attempt
C29_Witness ==
  \E p \in Procs :
    /\ Fetched(p)
    /\ Segments(world.kind, req[p].lang) = <<"a\n\n\nb  \n">>
    /\ Len(req[p].calls) = 2
    /\ req[p].result.value = "a\nb"

\* two segments with newlines on both sides of the joining space
C29_WitnessJoined ==
  \E p \in Procs :
    /\ Fetched(p)
    /\ Segments(world.kind, req[p].lang) = <<"a\n\n\nb  \n", "\n\n b">>
    /\ req[p].result.value = "a\nb  \n \n b"

(***************************************************************************)
(* The error of the last attempt of the retry-fetch (SpecFetch)            *)
(***************************************************************************)
\* the invocation has ended with the failure of its third attempt
ThirdAttemptFailed(r) ==
  /\ r.site = "lib" /\ r.pc = "done"
  /\ Len(r.libLog) = MAX_RETRIES
  /\ ~r.libLog[MAX_RETRIES].ok

\* C30: when the third attempt of the retry-fetch fails, the error raised
\* follows from the class of the third failure alone, whatever the first two
\* failures were: NetworkError when it is network-shaped, RateLimitError
\* when it is rate-limit-shaped, and the generic error "Failed to fetch
\* transcript for <videoId> after 3 attempts: <message>" when it is of no
\* class.
C30_ThirdFailureDecides ==
  \A p \in DOMAIN req :
    LET r == req[p]
    IN  ThirdAttemptFailed(r) =>
          LET m == r.libLog[MAX_RETRIES].message
          IN  /\ ~r.result.ok
              /\ isNetworkShaped(m) =>
                   r.thrown = MkError("NetworkError",
                                "Network error after 3 attempts: " \o m)
              /\ (~isNetworkShaped(m) /\ isRateLimitShaped(m)) =>
                   r.thrown = MkError("RateLimitError",
                                "Rate limited after 3 attempts: " \o m)
              /\ ( ~isNetworkShaped(m) /\ ~isRateLimitShaped(m)
                   /\ ~isNoTranscriptShaped(m) /\ ~isInvalidVideoShaped(m) ) =>
                   r.thrown = MkError("Error",
                                "Failed to fetch transcript for " \o r.videoId
                                  \o " after 3 attempts: " \o m)
              /\ \A i \in 1..MAX_RETRIES - 1 :
                   /\ ~r.libLog[i].ok
                   /\ errorClass(r.libLog[i].message) \in {"network", "rateLimit", "other"}

\* two rate-limit-shaped failures, then a network-shaped one: NetworkError
C30_Witness ==
  \E p \in DOMAIN req :
    /\ ThirdAttemptFailed(req[p])
    /\ req[p].libLog[1].message = "Too Many Requests"
    /\ req[p].libLog[2].message = "Too Many Requests"
    /\ req[p].libLog[3].message = "Request timed out"
    /\ req[p].thrown.name = "NetworkError"

\* two network-shaped failures, then one of no class: the generic error
C30_WitnessGeneric ==
  \E p \in DOMAIN req :
    /\ ThirdAttemptFailed(req[p])
    /\ req[p].libLog[1].message = "Request timed out"
    /\ req[p].libLog[2].message = "network failure loading captions"
    /\ req[p].libLog[3].message = "Unexpected token < in JSON"
    /\ req[p].thrown.message =
         "Failed to fetch transcript for abc after 3 attempts: Unexpected token < in JSON"

\* an unclassified and a network-shaped failure, then a rate-limit-shaped one
C30_WitnessRateLimit ==
  \E p \in DOMAIN req :
    /\ ThirdAttemptFailed(req[p])
    /\ req[p].libLog[1].message = ""
    /\ req[p].libLog[2].message = "Request timed out"
    /\ req[p].libLog[3].message = "This video is unavailable (HTTP 403)"
    /\ req[p].thrown.name = "RateLimitError"

(***************************************************************************)
(* The order of the path-shape rules (SpecUrl)                             *)
(***************************************************************************)
\* what the rules, taken in their order, yield for a URL put together from c
RuleYields(c) ==
  LET orNone(x) == IF x = "" THEN NoId ELSE x
  IN  IF c.host = "youtu.be" THEN orNone(c.path.first)
      ELSE IF c.path.kind = "watch" /\ c.query.v # "" THEN c.query.v
      ELSE IF c.path.kind = "second" THEN orNone(c.path.second)
      ELSE IF c.path.kind = "root" /\ c.query.v # "" THEN c.query.v
      ELSE NoId

\* the first application of the exports to a URL put together from c
FirstOfRule(p, c) ==
  /\ req[p].via = "resolver"
  /\ req[p].url = req[p].given
  /\ req[p].url = RuleTable[c]

C31_WitnessOtherPath ==
  \E p \in Procs :
    /\ req[p].via = "resolver"
    /\ req[p].url = "https://www.youtube.com/playlist?list=PL1&v=Q1"
    /\ req[p].videoId = NoId
    /\ ~req[p].result.ok

\* a repeated v parameter on a /watch path: the first value
C31_WitnessRepeated ==
  \E p \in Procs :
    /\ req[p].via = "resolver"
    /\ req[p].url = "https://m.youtube.com/watch?v=Q1&v=Q2"
    /\ req[p].videoId = "Q1"

\* an embed path with a v parameter: the second path segment
C31_WitnessEmbed ==
  \E p \in Procs :
    /\ req[p].via = "resolver"
    /\ req[p].url = "https://youtube.co.uk/embed/ID9?v=Q1"
    /\ req[p].videoId = "ID9"

(***************************************************************************)
(* A cached transcript under requests that run side by side                *)
(* (SpecConcurrent)                                                        *)
(***************************************************************************)
\* the store holds an unexpired success entry under the key
SuccessEntry(store, t, key) ==
  /\ KvPresent(store, t, key)
  /\ store[key].ttl = SUCCESSFUL_TRANSCRIPT_TTL_SECONDS

ErrorEntry(store, t, key) ==
  /\ KvPresent(store, t, key)
  /\ store[key].ttl = ERROR_RESPONSE_TTL_SECONDS

\* C32: once a transcript is cached for (videoId, lang), no request replaces
\* it with an error entry before it expires, also when requests for the same
\* (videoId, lang) run side by side and one of them fails after another has
\* written its success.
C32_SuccessNeverReplaced ==
  [][\A key \in DOMAIN kv :
       SuccessEntry(kv, now, key) => ~ErrorEntry(kv', now', key)]_vars

\* Both requests for (abc, en) missed the cache; the first upstream call
\* failed and the second succeeded; the transcript was written first and the
\* error entry has replaced it.
C32_Witness ==
  \E p, q \in Procs2 :
    /\ p # q
    /\ req[p].pc = "done" /\ req[q].pc = "done"
    /\ req[p].lang = "en" /\ req[q].lang = "en"
    /\ req[p].result.ok /\ ~req[q].result.ok
    /\ Len(req[p].writes) = 1 /\ ~req[p].writes[1].isError
    /\ Len(req[q].writes) = 1 /\ req[q].writes[1].isError
    /\ ErrorEntry(kv, now, getTranscriptCacheKey("abc", "en"))

(***************************************************************************)
(* Reading back a stored transcript (Spec)                                 *)
(***************************************************************************)
\* request p, at its cache lookup, is resumed with what the store holds
LookupOf(p) ==
  /\ req[p].pc = "get"
  /\ req'[p] # req[p]
  /\ kvMode = "ok"

\* its key holds an unexpired success entry
LookupFindsTranscript(p) ==
  /\ LookupOf(p)
  /\ SuccessEntry(kv, now, getTranscriptCacheKey(req[p].videoId, req[p].lang))

\* the lookup was a hit: the request returns without a call or a write
AnsweredFromCache(p) ==
  /\ req'[p].pc = "done"
  /\ req'[p].result.ok
  /\ req'[p].calls = req[p].calls
  /\ kv' = kv

\* C33: a value stored as a transcript for (videoId, lang) is read back as a
\* transcript hit, never as an error or a miss, whatever text the
\* retry-fetch returned (the empty text and text beginning with "Error:"
\* included).
C33_TranscriptReadBack ==
  [][\A p \in Procs : LookupFindsTranscript(p) => AnsweredFromCache(p)]_vars

\* The part of C33 that holds: a stored transcript that is not empty and
\* does not begin with "Error:" is read back as a hit.
C33_PlainTranscriptReadBack ==
  [][\A p \in Procs :
       ( /\ LookupFindsTranscript(p)
         /\ LET e == kv[getTranscriptCacheKey(req[p].videoId, req[p].lang)]
            IN  e.value # "" /\ ~startsWith(e.value, "Error:") )
       => AnsweredFromCache(p)]_vars

\* the stored transcript "Error: en" was read and the request failed
C33_Witness ==
  \E p \in Procs :
    /\ req[p].pc = "done" /\ ~req[p].result.ok
    /\ Len(hist) = 2
    /\ hist[1].result = [ok |-> TRUE, value |-> "Error: en"]
    /\ req[p].calls = <<>>

(***************************************************************************)
(* Cache writes of auto-detect mode (Spec)                                 *)
(***************************************************************************)
\* C34: auto-detect mode writes to the transcript cache only on success and
\* only under the candidate that succeeded; failures of candidates are never
\* written; a stored error entry of a candidate is treated as a miss; and
\* every candidate before the successful one has been called upstream by the
\* request, also when the request is a repetition.
C34_AutoWritesOnlySuccess ==
  \A p \in Procs :
    LET r == req[p]
    IN  Auto(r) =>
          /\ Len(r.writes) <= 1
          /\ \A i \in 1..Len(r.writes) :
               /\ ~r.writes[i].isError
               /\ r.writes[i].lang = r.lang
               /\ r.writes[i].lang = r.calls[Len(r.calls)]
               /\ r.libLog[Len(r.libLog)].ok
               /\ \A j \in 1..Len(r.failures) : r.failures[j].lang # r.writes[i].lang
               /\ Returned(p) => r.result.ok
          /\ (r.pc = "put") => (~r.put.isError /\ r.put.lang = r.lang)
          /\ (Returned(p) /\ ~r.result.ok) => r.writes = <<>>
          /\ \A i \in 1..Len(r.reads) :
               r.reads[i].errorEntry =>
                 \/ \E j \in 1..Len(r.calls) : r.calls[j] = r.reads[i].lang
                 \/ r.pc = "fetch" /\ r.lang = r.reads[i].lang /\ i = Len(r.reads)
          /\ (Returned(p) /\ r.result.ok) =>
               \A k \in 1..(r.cand - 1) :
                 /\ \E j \in 1..Len(r.calls) : r.calls[j] = languagesToTry[k]
                 /\ \E j \in 1..Len(r.failures) : r.failures[j].lang = languagesToTry[k]

\* a repeated auto request on a video with a Spanish transcript only: English
\* is called upstream again, Spanish comes from the cache, nothing is written
C34_Witness ==
  \E p \in Procs :
    /\ Returned(p) /\ Auto(req[p]) /\ req[p].result.ok
    /\ Len(hist) = 2
    /\ hist[1].language = "auto" /\ hist[1].result.ok
    /\ req[p].calls = <<"en">>
    /\ req[p].lang = "es"
    /\ req[p].writes = <<>>
    /\ kv[getTranscriptCacheKey("abc", "es")].ttl = SUCCESSFUL_TRANSCRIPT_TTL_SECONDS

\* an auto request that finds a stored error entry for English calls
\* upstream for English
C34_WitnessErrorEntry ==
  \E p \in Procs :
    /\ Returned(p) /\ Auto(req[p])
    /\ Len(req[p].reads) >= 1
    /\ req[p].reads[1].lang = "en" /\ req[p].reads[1].errorEntry
    /\ req[p].calls[1] = "en"

(***************************************************************************)
(* Classification of the errors of the retry-fetch by the handler          *)
(* (SpecClassify): videos whose calls fail with each kind of terminal      *)
(* error, one of them with an identifier that spells a word.               *)
(***************************************************************************)
ClassifyWorlds ==
  { World({}, "plain", <<>>, <<>>),
    World({"es"}, "plain", <<>>, <<>>),
    World({"en"}, "plain", Broken("tr", "Unexpected token < in JSON"), <<>>),
    World({"en"}, "plain", Broken("tr", "Video not found or private"), <<>>),
    World({"en"}, "plain", Outage("This video is unavailable"), <<>>) }

ClassifyUrls == {"https://youtu.be/abc", "https://youtu.be/CaptionTest1"}

ClassifyRequests ==
  {[url |-> u, language |-> l] : u \in ClassifyUrls, l \in {"auto", "tr"}}

InitClassify ==
  /\ world \in ClassifyWorlds
  /\ kvMode = "ok"
  /\ glitches = world.glitches
  /\ kv = <<>>
  /\ now = 0
  /\ ticks = 0
  /\ faultsLeft = 0
  /\ req = [p \in Procs |-> IdleReq]
  /\ tasks = <<>>
  /\ hist = <<>>

NextClassify ==
  \/ \E p \in Procs, rq \in ClassifyRequests : Start(p, rq.url, rq.language)
  \/ \E p \in Procs : CacheGet(p)
  \/ \E p \in Procs : FetchAttempt(p)
  \/ \E p \in Procs : BackoffElapsed(p)
  \/ \E p \in Procs : CachePut(p)

SpecClassify == InitClassify /\ [][NextClassify]_vars

\* the errors of the retry-fetch the claim speaks about
IsVideoUnavailable(error) == error.name = "VideoUnavailableError"
IsInvalidVideo(error) == error.name = "InvalidVideoError"
IsGenericTerminal(error) ==
  error.name = "Error" /\ startsWith(error.message, "Failed to fetch transcript for ")

\* what the failures recorded by request r led to, for the videos in ids:
\* a VideoUnavailable or generic terminal failure is language-related, sends
\* an exact-language request for a language other than English on to the
\* English fallback and an auto request on to the next candidate; an
\* InvalidVideo failure is not language-related and ends the request
ClassifiedAsClaimed(r) ==
  \A j \in 1..Len(r.failures) :
    LET f == r.failures[j]
    IN  /\ (IsVideoUnavailable(f.error) \/ IsGenericTerminal(f.error)) =>
             /\ isLanguageRelatedError(f.error)
             /\ includes(toLowerCase(f.error.message), "transcript")
             /\ (r.language \notin {"auto", "en"} /\ f.lang = r.language) =>
                  r.site = "en"
             /\ r.language = "auto" =>
                  /\ f.lang = languagesToTry[j]
                  /\ r.cand > j \/ j = Len(languagesToTry)
        /\ IsInvalidVideo(f.error) =>
             /\ ~isLanguageRelatedError(f.error)
             /\ j = Len(r.failures)
             /\ r.calls[Len(r.calls)] = f.lang
             /\ (r.language \notin {"auto", "en"} /\ f.lang = r.language) =>
                  r.site = "req"
             /\ r.language = "auto" => (r.cand = j /\ r.pc = "done" /\ ~r.result.ok)

\* C35: every VideoUnavailable error and every generic terminal error of the
\* retry-fetch is language-related (its message contains "transcript"), so
\* it triggers the English fallback of an exact-language request for a
\* language other than English and moves auto-detect mode on to the next
\* candidate; an InvalidVideo error stops both.
C35_ClassificationDrivesFallback ==
  \A p \in Procs : req[p].videoId # "" => ClassifiedAsClaimed(req[p])

\* The part of C35 that holds: the same for every video whose identifier
\* does not itself read as language-related.
C35_ClassificationOnPlainIds ==
  \A p \in Procs :
    (req[p].videoId # "" /\ ~isLanguageRelatedError(MkError("", req[p].videoId)))
      => ClassifiedAsClaimed(req[p])

\* a 'tr' request for CaptionTest1 whose upstream call failed as InvalidVideo
\* went on to the English fallback
C35_Witness ==
  \E p \in Procs :
    /\ req[p].videoId = "CaptionTest1" /\ req[p].language = "tr"
    /\ Len(req[p].failures) >= 1
    /\ IsInvalidVideo(req[p].failures[1].error)
    /\ req[p].calls = <<"tr", "en">>

\* an auto request for abc stopped at the InvalidVideo failure of English
C35_WitnessStops ==
  \E p \in Procs :
    /\ req[p].videoId = "abc" /\ req[p].language = "auto" /\ req[p].pc = "done"
    /\ req[p].calls = <<"en">>
    /\ Len(req[p].failures) = 1
    /\ IsInvalidVideo(req[p].failures[1].error)
    /\ req[p].result = [ok |-> FALSE, value |-> "Video not found or private."]

\* a 'tr' request whose fetch ended in the generic error after 3 attempts
\* returned English
C35_WitnessGeneric ==
  \E p \in Procs :
    /\ req[p].videoId = "abc" /\ req[p].language = "tr" /\ req[p].pc = "done"
    /\ req[p].calls = <<"tr", "tr", "tr", "en">>
    /\ Len(req[p].failures) = 1
    /\ IsGenericTerminal(req[p].failures[1].error)
    /\ req[p].result.ok

(***************************************************************************)
(* Cache keys of different (videoId, language) pairs (SpecKeys):           *)
(* identifiers and language strings with and without a colon.              *)
(***************************************************************************)
KeyUrls == {"https://youtu.be/a", "https://youtu.be/a:b", "https://youtu.be/abc"}

KeyLanguages == {"c", "b:c", "en"}

KeyRequests == {[url |-> u, language |-> l] : u \in KeyUrls, l \in KeyLanguages}

InitKeys ==
  /\ world = World(KeyLanguages, "plain", <<>>, <<>>)
  /\ kvMode = "ok"
  /\ glitches = world.glitches
  /\ kv = <<>>
  /\ now = 0
  /\ ticks = 0
  /\ faultsLeft = 0
  /\ req = [p \in Procs |-> IdleReq]
  /\ tasks = <<>>
  /\ hist = <<>>

NextKeys ==
  \/ \E p \in Procs, rq \in KeyRequests : Start(p, rq.url, rq.language)
  \/ \E p \in Procs : CacheGet(p)
  \/ \E p \in Procs : FetchAttempt(p)
  \/ \E p \in Procs : CachePut(p)

SpecKeys == InitKeys /\ [][NextKeys]_vars

\* the (videoId, language) pairs of the requests made so far
PairsSoFar ==
  {<<hist[i].videoId, hist[i].language>> : i \in 1..Len(hist)}
    \cup {<<req[p].videoId, req[p].language>> : p \in {q \in Procs : req[q].videoId # ""}}

\* request p was answered from the cache with a transcript another pair
\* had stored
ReadForAnotherPair(p) ==
  /\ req[p].pc = "done" /\ req[p].result.ok
  /\ req[p].calls = <<>>
  /\ \A i \in 1..Len(hist) - 1 :
       <<hist[i].videoId, hist[i].language>> # <<req[p].videoId, req[p].language>>

\* C36: distinct (videoId, language) pairs have distinct cache keys, for
\* every identifier the URL resolver produces and every language string a
\* caller passes, so an entry written for one pair is never read for
\* another.
C36_KeyInjective ==
  /\ \A a, b \in PairsSoFar :
       a # b => getTranscriptCacheKey(a[1], a[2]) # getTranscriptCacheKey(b[1], b[2])
  /\ \A p \in Procs : ~ReadForAnotherPair(p)

\* The part of C36 that holds: pairs whose language strings have no colon
\* have distinct keys, and so have pairs whose identifiers have no colon.
C36_InjectiveWithoutColon ==
  \A a, b \in PairsSoFar :
    ( /\ a # b
      /\ \/ indexOfChar(a[2], ":") = 0 /\ indexOfChar(b[2], ":") = 0
         \/ indexOfChar(a[1], ":") = 0 /\ indexOfChar(b[1], ":") = 0 )
    => getTranscriptCacheKey(a[1], a[2]) # getTranscriptCacheKey(b[1], b[2])

\* the transcript stored for (a:b, c) was returned to the request for
\* (a, b:c) without an upstream call
C36_Witness ==
  \E p \in Procs :
    /\ Len(hist) = 2
    /\ hist[1].videoId = "a:b" /\ hist[1].language = "c"
    /\ req[p].videoId = "a" /\ req[p].language = "b:c"
    /\ ReadForAnotherPair(p)
    /\ req[p].result.value = hist[1].result.value

====
